---- MODULE Spec2Model ----
\* Model of the texture expression cache of blenvm
\* (source/blender/blenvm/llvm/llvm_compiler_dual.cc, the BVM_texture_cache
\* functions) and of the process lifecycle hook BVM_free.
\*
\* Threads call acquire / release / invalidate / clear / BVM_free; every
\* function is split into the steps between which another thread can run.
\* The host edits the Tex datablocks at any time: acquire finds in use_nodes
\* and nodetree whatever the host left there.
EXTENDS Integers, FiniteSets, Sequences, TLC

\* ---- bounds of the model ------------------------------------------------
NumThreads == 2      \* calling threads
NumTex     == 2      \* Tex datablocks (cache keys)
NumTrees   == 2      \* distinct node trees a Tex can carry
MaxExprs   == 2      \* compilations over a run (fresh Expression objects)
MaxDeletes == 2      \* the delete count of an Expression saturates here

\* ---- values -------------------------------------------------------------
NULL == 0

Threads == 1..NumThreads
Texs    == 1..NumTex
Trees   == 1..NumTrees
ExprIds == 1..MaxExprs

\* ExpressionCache::end(): the iterator that names no entry.
End == <<>>

VARIABLES
    bvm_tex_cache,  \* the map, as its set of entries <<Tex*, Expression*>>
    bvm_tex_mutex,  \* NULL, or the thread that holds the lock
    heap,           \* [ExprIds -> Expression object state]
    pc,             \* [Threads -> position in the function being run]
    loc,            \* [Threads -> locals of the running function]
    compiles,       \* [Texs -> calls of BVM_gen_texture_expression so far]
    acquired,       \* [Texs -> the last acquire since the last invalidate/clear]
    invalidated,    \* [Texs -> Expression erased by invalidate, no acquire since]
    released,       \* [Texs -> entry seen by the last release, no other call since]
    holding         \* [Threads -> the <<Tex*, Expression*>> acquired, not released]

cacheVars == <<bvm_tex_cache, bvm_tex_mutex, heap, pc, loc,
               compiles, acquired, invalidated, released, holding>>

\* ---- state of LLVMTextureCompiler::define_nodes_module ---------------------
VARIABLES
    mod,            \* the llvm::Module under construction: its set of Functions
    m_nodes_module, \* <<>> (NULL), or <<the finished module>>
    op_it,          \* the opcode of BVM_DEFINE_OPCODES being defined
    at,             \* the function define_nodes_module is in
    nodetype,       \* <<>> (NULL), or <<the NodeType find_node_type gave>>
    build,          \* "debug": BLI_assert checks and aborts; "release": it is empty
    fault,          \* what stopped the process, "none" while it runs
    call            \* <<>>, or <<the running call of a compiled node function>>

nodesVars == <<mod, m_nodes_module, op_it, at, nodetype, build, fault, call>>

\* define_nodes_module not running.
nodesAtRest ==
    /\ mod = {}
    /\ m_nodes_module = <<>>
    /\ op_it = 0
    /\ at = "none"
    /\ nodetype = <<>>
    /\ build = "release"
    /\ fault = "none"
    /\ call = <<>>

\* ---- state of the graph lowering of LLVMTextureCompiler ---------------------
VARIABLES
    m_output_values, \* OutputValueMap, as its set of entries <<output, DualValue>>
    lower_at,        \* "idle" between two graphs, "graph" from node_graph_begin on
    graphs,          \* of every graph lowered so far, the values it had defined
    arg_values,      \* std::vector<llvm::Value*> args after the last append_*
    args_of          \* the socket that append was for, <<>> before the first

lowerVars == <<m_output_values, lower_at, graphs, arg_values, args_of>>

\* No graph lowered yet.
lowerAtRest ==
    /\ m_output_values = {}
    /\ lower_at = "idle"
    /\ graphs = <<>>
    /\ arg_values = <<>>
    /\ args_of = <<>>

\* ---- state of the evaluation of an elementary math operation ----------------
VARIABLES
    stack,          \* float *stack: [StackIndex -> float]
    op_done,        \* the eval_op_* function that ran, "none" before
    divisors        \* the divisors of the divisions it made

mathVars == <<stack, op_done, divisors>>

\* No stack.
mathAtRest ==
    /\ stack = <<>>
    /\ op_done = "none"
    /\ divisors = {}

\* ---- state of parse_tex_nodes and its bNodeCompiler --------------------------
VARIABLES
    btree,           \* the bNodeTree to convert: its nodes and its links
    registry,        \* the names of the registered NodeTypes
    m_graph,         \* the NodeGraph: its nodes, input values and links
    m_current_bnode, \* 0 (NULL), or the index of the bNode being converted
    m_input_map,     \* InputMap, as its set of <<bNode, socket index, SocketPair>>
    m_output_map,    \* OutputMap, as its set of <<bNode, socket index, SocketPair>>
    bnode_it,        \* the bNode the first loop of parse_tex_nodes is at
    blink_it,        \* the bNodeLink the second loop of parse_tex_nodes is at
    crashed,         \* the process died on a NULL NodeInstance
    null_used        \* the members called on a NULL NodeInstance so far

graphVars == <<btree, registry, m_graph, m_current_bnode, m_input_map,
               m_output_map, bnode_it, blink_it, crashed, null_used>>

\* No tree to convert.
graphAtRest ==
    /\ btree = <<>>
    /\ registry = {}
    /\ m_graph = <<>>
    /\ m_current_bnode = 0
    /\ m_input_map = {}
    /\ m_output_map = {}
    /\ bnode_it = 0
    /\ blink_it = 0
    /\ crashed = FALSE
    /\ null_used = {}

\* ---- state of a caller of use_argument_pointer ------------------------------
VARIABLES
    sockets,        \* the arguments to decide on: <<typespec, use_dual>> each
    answers         \* the answers so far, one per argument decided

argsVars == <<sockets, answers>>

\* No argument to decide on.
argsAtRest ==
    /\ sockets = <<>>
    /\ answers = <<>>

\* ---- state of the keyframe editing functions --------------------------------
VARIABLES
    ipo,            \* Ipo *ipo: its IpoCurves, each the sequence of its BezTriples
    markers,        \* scene->markers, as the caller of mirror_bezier_marker has it
    marker,         \* static TimeMarker *marker: an index of markers, 0 (NULL)
    initialised,    \* static short initialised
    cycle,          \* the caller of mirror_bezier_marker: "closed" or "open"
    cycles,         \* the mirror cycles begun so far
    keys_at,        \* "idle", or "loop" inside a *_keys_bezier_loop
    run,            \* arguments, position and return values of the last loop
    key_calls,      \* the callbacks the last loop called, in order
    sel             \* the last select_*_key: its arguments and the Ipo before it

keysVars == <<ipo, markers, marker, initialised, cycle, cycles, keys_at, run,
              key_calls, sel>>

\* No Ipo, nothing called.
keysAtRest ==
    /\ ipo = <<>>
    /\ markers = <<>>
    /\ marker = 0
    /\ initialised = 0
    /\ cycle = "closed"
    /\ cycles = 0
    /\ keys_at = "idle"
    /\ run = <<>>
    /\ key_calls = <<>>
    /\ sel = <<>>

\* ---- state of the pose sculpting operator -----------------------------------
VARIABLES
    brush,          \* the settings: pset->brushtype, and flag and size of the brush
    fp_contract,    \* the build contracts a + b * c into a fused multiply-add
    connected,      \* the bones with a parent and BONE_CONNECTED
    ps_at,          \* "none", "steps" in the for loop of psculpt_brush_apply,
                    \* "modal" between two events, "finished" after the exit
    pso_first,      \* pso->first
    lastmouse,      \* pso->lastmouse: two floats
    timerTick,      \* pso->timerTick
    pso_timer,      \* pso->timer: "NULL", or the timer
    affected_bones, \* pso->affected_bones: the bones that have an entry
    data_invert,    \* pso->data.invert
    pchan_loc,      \* of every bone, the displacements added to pchan->loc
    pchan_eul,      \* of every bone, the angles added to its euler rotation
    mouse,          \* int mouse[2] of the event being applied
    dvec,           \* dx and dy of psculpt_brush_apply: two floats
    tot_steps,      \* tot_steps
    step,           \* step
    mval,           \* mval of the last sub-step made: two floats
    called,         \* the bones brush_cb was called on in the last sub-step
    caller,         \* what called psculpt_brush_apply_event
    events          \* the events psculpt_brush_modal has handled

sculptVars == <<brush, fp_contract, connected, ps_at, pso_first, lastmouse, timerTick,
                pso_timer, affected_bones, data_invert, pchan_loc, pchan_eul,
                mouse, dvec, tot_steps, step, mval, called, caller, events>>

\* No operator invoked.
sculptAtRest ==
    /\ brush = <<>>
    /\ fp_contract = FALSE
    /\ connected = {}
    /\ ps_at = "none"
    /\ pso_first = FALSE
    /\ lastmouse = <<>>
    /\ timerTick = FALSE
    /\ pso_timer = "NULL"
    /\ affected_bones = {}
    /\ data_invert = FALSE
    /\ pchan_loc = <<>>
    /\ pchan_eul = <<>>
    /\ mouse = <<>>
    /\ dvec = <<>>
    /\ tot_steps = 0
    /\ step = 0
    /\ mval = <<>>
    /\ called = {}
    /\ caller = ""
    /\ events = 0

\* ---- all of it ------------------------------------------------------------
vars == <<cacheVars, nodesVars, lowerVars, mathVars, graphVars, argsVars, keysVars, sculptVars>>

\* What the cache functions leave alone, and what define_nodes_module does.
outsideCache == <<nodesVars, lowerVars, mathVars, graphVars, argsVars, keysVars, sculptVars>>
outsideNodes == <<cacheVars, lowerVars, mathVars, graphVars, argsVars, keysVars, sculptVars>>
outsideLower == <<cacheVars, mod, m_nodes_module, op_it, at, nodetype, call,
                  mathVars, graphVars, argsVars, keysVars, sculptVars>>
outsideMath  == <<cacheVars, nodesVars, lowerVars, graphVars, argsVars, keysVars, sculptVars>>
outsideGraph == <<cacheVars, nodesVars, lowerVars, mathVars, argsVars, keysVars, sculptVars>>
outsideArgs  == <<cacheVars, nodesVars, lowerVars, mathVars, graphVars, keysVars, sculptVars>>
outsideKeys == <<cacheVars, nodesVars, lowerVars, mathVars, graphVars, argsVars, sculptVars>>
outsideSculpt == <<cacheVars, nodesVars, lowerVars, mathVars, graphVars, argsVars, keysVars>>

\* ---- the Expression heap -------------------------------------------------
NoExpr == [alloc |-> FALSE, tex |-> NULL, tree |-> NULL, deletes |-> 0]

\* new Expression, compiled for Tex k from node tree g.
NewExpr(k, g) == [alloc |-> TRUE, tex |-> k, tree |-> g, deletes |-> 0]

Min(a, b) == IF a < b THEN a ELSE b

\* delete e: the object is gone; deleting NULL does nothing.
ExprDelete(h, e) ==
    IF e = NULL THEN h
    ELSE [h EXCEPT ![e] = [alloc |-> TRUE, tex |-> NULL, tree |-> NULL,
                           deletes |-> Min(h[e].deletes + 1, MaxDeletes)]]

Live(e) == heap[e].alloc /\ heap[e].deletes = 0

\* The next object the allocator hands out.
NextExpr == Cardinality({e \in ExprIds : heap[e].alloc}) + 1

\* ---- unordered_map<Tex*, Expression*> -----------------------------------
MapFind(m, k) ==
    IF \E it \in m : it[1] = k THEN CHOOSE it \in m : it[1] = k ELSE End

\* m[k] = v
MapAssign(m, k, v) == {it \in m : it[1] # k} \cup {<<k, v>>}

\* erase that empties the map (clear() written for erase(it)).
MapErase_all(m, it) == {}

MapErase(m, it) == m \ {it}

\* ---- locals ---------------------------------------------------------------
\* Of the running function: fn (its name), tex (its argument), it (the
\* iterator find() gave), expr and btree (acquire's expr and the nodetree it
\* hands to the compiler), ret (the value it returns), todo (the entries the
\* loop of clear has not visited yet).
\* What the call observed, kept to state the properties: nodes and tree0 (the
\* source's node test and node tree as the call read them), hit (find() gave
\* an entry), c0, cache0, del0 (compile count of the key, map and delete counts
\* when the call took the lock), rel0 (released[tex] at that time), again (an
\* invalidate of the same key came right before this invalidate).
NoSnap == [e \in ExprIds |-> 0]

NoLoc == [fn |-> "none", tex |-> NULL, it |-> End, expr |-> NULL,
          btree |-> NULL, ret |-> NULL, todo |-> {}, nodes |-> FALSE,
          hit |-> FALSE, again |-> FALSE, rel0 |-> {}, tree0 |-> NULL,
          c0 |-> 0, cache0 |-> {}, del0 |-> NoSnap]

Deletes == [e \in ExprIds |-> heap[e].deletes]

\* tex->use_nodes && tex->nodetree
HasNodes(use_nodes, nodetree) == use_nodes /\ nodetree # NULL

TotalCompiles ==
    LET RECURSIVE Sum(_)
        Sum(S) == IF S = {} THEN 0
                  ELSE LET k == CHOOSE x \in S : TRUE
                       IN compiles[k] + Sum(S \ {k})
    IN Sum(Texs)

\* Acquire calls that may still compile.
Pending == Cardinality({t \in Threads : pc[t] \in {"acq_lock", "acq_find", "acq_compile"}})

Init ==
    /\ bvm_tex_cache = {}
    /\ bvm_tex_mutex = NULL
    /\ heap = [e \in ExprIds |-> NoExpr]
    /\ pc = [t \in Threads |-> "idle"]
    /\ loc = [t \in Threads |-> NoLoc]
    /\ compiles = [k \in Texs |-> 0]
    /\ acquired = [k \in Texs |-> {}]
    /\ invalidated = [k \in Texs |-> {}]
    /\ released = [k \in Texs |-> {}]
    /\ holding = [t \in Threads |-> {}]
    /\ nodesAtRest
    /\ lowerAtRest
    /\ mathAtRest
    /\ graphAtRest
    /\ argsAtRest
    /\ keysAtRest
    /\ sculptAtRest

\* The cache with no entry and no call running.
cacheAtRest ==
    /\ bvm_tex_cache = {}
    /\ bvm_tex_mutex = NULL
    /\ heap = [e \in ExprIds |-> NoExpr]
    /\ pc = [t \in Threads |-> "idle"]
    /\ loc = [t \in Threads |-> NoLoc]
    /\ compiles = [k \in Texs |-> 0]
    /\ acquired = [k \in Texs |-> {}]
    /\ invalidated = [k \in Texs |-> {}]
    /\ released = [k \in Texs |-> {}]
    /\ holding = [t \in Threads |-> {}]

\* ---- scoped_lock -----------------------------------------------------------
\* scoped_lock lock(bvm_tex_mutex): blocks until the mutex is free.
scoped_lock(t) ==
    /\ bvm_tex_mutex = NULL
    /\ bvm_tex_mutex' = t

\* A scoped_lock that leaves scope without giving the mutex up.
scoped_unlock_never(t) == UNCHANGED bvm_tex_mutex

\* ~scoped_lock()
scoped_unlock(t) ==
    bvm_tex_mutex' = IF bvm_tex_mutex = t THEN NULL ELSE bvm_tex_mutex

\* ---- BVMCompiler::codegen_expression -------------------------------------
\* The compiler hands back a new Expression, or no artifact when the
\* compilation of the graph fails.
codegen_expression == {e \in {NextExpr} : e \in ExprIds} \cup {NULL}

\* ---- BVM_texture_cache_acquire ---------------------------------------------
\* The call. A run makes at most MaxExprs compilations: a call is made only
\* while one is left for it.
acquire_call(t, k) ==
    /\ pc[t] = "idle"
    /\ UNCHANGED <<outsideCache, holding>>
    /\ TotalCompiles + Pending < MaxExprs
    /\ pc' = [pc EXCEPT ![t] = "acq_lock"]
    /\ loc' = [loc EXCEPT ![t] = [NoLoc EXCEPT !.fn = "acquire", !.tex = k]]
    /\ UNCHANGED <<bvm_tex_cache, bvm_tex_mutex, heap,
                   compiles, acquired, invalidated, released>>

\* scoped_lock lock(bvm_tex_mutex);
acquire_lock(t) ==
    /\ pc[t] = "acq_lock"
    /\ UNCHANGED <<outsideCache, holding>>
    /\ scoped_lock(t)
    /\ pc' = [pc EXCEPT ![t] = "acq_find"]
    /\ loc' = [loc EXCEPT ![t].c0 = compiles[loc[t].tex],
                          ![t].cache0 = bvm_tex_cache, ![t].del0 = Deletes,
                          ![t].rel0 = released[loc[t].tex]]
    /\ UNCHANGED <<bvm_tex_cache, heap,
                   compiles, acquired, invalidated, released>>

\* acquire_find whose lock covers the lookup alone: on a miss the lock is given
\* up before the graph is compiled.
acquire_find_unlock(t, use_nodes, nodetree) ==
    /\ pc[t] = "acq_find"
    /\ UNCHANGED <<outsideCache, holding>>
    /\ LET k  == loc[t].tex
           it == MapFind(bvm_tex_cache, k)
       IN  IF it # End
           THEN /\ pc' = [pc EXCEPT ![t] = "acq_ret"]
                /\ loc' = [loc EXCEPT ![t].it = it, ![t].ret = it[2],
                                      ![t].hit = TRUE,
                                      ![t].nodes = HasNodes(use_nodes, nodetree),
                                      ![t].tree0 = nodetree]
                /\ UNCHANGED bvm_tex_mutex
           ELSE IF HasNodes(use_nodes, nodetree)
           THEN /\ pc' = [pc EXCEPT ![t] = "acq_compile"]
                /\ loc' = [loc EXCEPT ![t].btree = nodetree,
                                      ![t].nodes = TRUE,
                                      ![t].tree0 = nodetree]
                /\ scoped_unlock(t)
           ELSE /\ pc' = [pc EXCEPT ![t] = "acq_ret"]
                /\ loc' = [loc EXCEPT ![t].ret = NULL, ![t].nodes = FALSE,
                                      ![t].tree0 = nodetree]
                /\ UNCHANGED bvm_tex_mutex
    /\ UNCHANGED <<bvm_tex_cache, heap,
                   compiles, acquired, invalidated, released>>

\* acquire_find that never looks the key up: every call with nodes compiles.
acquire_find_nolookup(t, use_nodes, nodetree) ==
    /\ pc[t] = "acq_find"
    /\ UNCHANGED <<outsideCache, holding>>
    /\ IF HasNodes(use_nodes, nodetree)
       THEN /\ pc' = [pc EXCEPT ![t] = "acq_compile"]
            /\ loc' = [loc EXCEPT ![t].btree = nodetree, ![t].nodes = TRUE,
                                  ![t].tree0 = nodetree]
       ELSE /\ pc' = [pc EXCEPT ![t] = "acq_ret"]
            /\ loc' = [loc EXCEPT ![t].ret = NULL, ![t].nodes = FALSE,
                                  ![t].tree0 = nodetree]
    /\ UNCHANGED <<bvm_tex_cache, bvm_tex_mutex, heap,
                   compiles, acquired, invalidated, released>>

\* it = bvm_tex_cache.find(tex); if (it != end) return it->second;
\* else if (tex->use_nodes && tex->nodetree) ... else return NULL;
\* use_nodes and nodetree are the fields of the host's datablock as they are
\* when the function reads them.
acquire_find(t, use_nodes, nodetree) ==
    /\ pc[t] = "acq_find"
    /\ UNCHANGED <<outsideCache, holding>>
    /\ LET k  == loc[t].tex
           it == MapFind(bvm_tex_cache, k)
       IN  IF it # End
           THEN /\ pc' = [pc EXCEPT ![t] = "acq_ret"]
                /\ loc' = [loc EXCEPT ![t].it = it, ![t].ret = it[2],
                                      ![t].hit = TRUE,
                                      ![t].nodes = HasNodes(use_nodes, nodetree),
                                      ![t].tree0 = nodetree]
           ELSE IF HasNodes(use_nodes, nodetree)
           THEN /\ pc' = [pc EXCEPT ![t] = "acq_compile"]
                /\ loc' = [loc EXCEPT ![t].btree = nodetree,
                                      ![t].nodes = TRUE,
                                      ![t].tree0 = nodetree]
           ELSE /\ pc' = [pc EXCEPT ![t] = "acq_ret"]
                /\ loc' = [loc EXCEPT ![t].ret = NULL, ![t].nodes = FALSE,
                                      ![t].tree0 = nodetree]
    /\ UNCHANGED <<bvm_tex_cache, bvm_tex_mutex, heap,
                   compiles, acquired, invalidated, released>>

\* expr = BVM_gen_texture_expression(&globals, tex, tex->nodetree, NULL);
BVM_gen_texture_expression(t) ==
    /\ pc[t] = "acq_compile"
    /\ UNCHANGED <<outsideCache, holding>>
    /\ \E e \in codegen_expression :
         /\ heap' = IF e = NULL THEN heap
                    ELSE [heap EXCEPT ![e] = NewExpr(loc[t].tex, loc[t].btree)]
         /\ loc' = [loc EXCEPT ![t].expr = e]
    /\ compiles' = [compiles EXCEPT ![loc[t].tex] = @ + 1]
    /\ pc' = [pc EXCEPT ![t] = "acq_store"]
    /\ UNCHANGED <<bvm_tex_cache, bvm_tex_mutex,
                   acquired, invalidated, released>>

\* acquire_store that stores only an Expression, never NULL.
acquire_store_nonnull(t) ==
    /\ pc[t] = "acq_store"
    /\ UNCHANGED <<outsideCache, holding>>
    /\ bvm_tex_cache' = IF loc[t].expr = NULL THEN bvm_tex_cache
                        ELSE MapAssign(bvm_tex_cache, loc[t].tex, loc[t].expr)
    /\ loc' = [loc EXCEPT ![t].ret = loc[t].expr]
    /\ pc' = [pc EXCEPT ![t] = "acq_ret"]
    /\ UNCHANGED <<bvm_tex_mutex, heap,
                   compiles, acquired, invalidated, released>>

\* bvm_tex_cache[tex] = _EXPR(expr);
acquire_store(t) ==
    /\ pc[t] = "acq_store"
    /\ UNCHANGED <<outsideCache, holding>>
    /\ bvm_tex_cache' = MapAssign(bvm_tex_cache, loc[t].tex, loc[t].expr)
    /\ loc' = [loc EXCEPT ![t].ret = loc[t].expr]
    /\ pc' = [pc EXCEPT ![t] = "acq_ret"]
    /\ UNCHANGED <<bvm_tex_mutex, heap,
                   compiles, acquired, invalidated, released>>

\* return (and the scoped_lock leaves scope).
acquire_return(t) ==
    /\ pc[t] = "acq_ret"
    /\ UNCHANGED outsideCache
    /\ holding' = [holding EXCEPT ![t] =
                      IF loc[t].ret # NULL
                      THEN @ \cup {<<loc[t].tex, loc[t].ret>>}
                      ELSE @]
    /\ scoped_unlock(t)
    /\ pc' = [pc EXCEPT ![t] = "idle"]
    /\ loc' = [loc EXCEPT ![t] = NoLoc]
    /\ LET k == loc[t].tex
       IN  /\ acquired' = [acquired EXCEPT ![k] =
                 IF loc[t].nodes
                 THEN {[ret |-> loc[t].ret, c0 |-> loc[t].c0, miss |-> ~loc[t].hit]}
                 ELSE @]
           /\ invalidated' = [invalidated EXCEPT ![k] = {}]
           /\ released' = [released EXCEPT ![k] = {}]
    /\ UNCHANGED <<bvm_tex_cache, heap, compiles>>

BVM_texture_cache_acquire(t) ==
    \/ \E k \in Texs : acquire_call(t, k)
    \/ acquire_lock(t)
    \/ \E use_nodes \in BOOLEAN, nodetree \in Trees \cup {NULL} :
          acquire_find(t, use_nodes, nodetree)
    \/ BVM_gen_texture_expression(t)
    \/ acquire_store(t)
    \/ acquire_return(t)

\* ---- BVM_texture_cache_release ---------------------------------------------
release_call(t, k) ==
    /\ pc[t] = "idle"
    /\ UNCHANGED outsideCache
    /\ holding' = [holding EXCEPT ![t] = {h \in @ : h[1] # k}]
    /\ pc' = [pc EXCEPT ![t] = "rel_body"]
    /\ loc' = [loc EXCEPT ![t] = [NoLoc EXCEPT !.fn = "release", !.tex = k]]
    /\ UNCHANGED <<bvm_tex_cache, bvm_tex_mutex, heap,
                   compiles, acquired, invalidated, released>>

\* release that drops the entry of its key.
release_body_drop(t) ==
    /\ pc[t] = "rel_body"
    /\ UNCHANGED <<outsideCache, holding>>
    /\ pc' = [pc EXCEPT ![t] = "idle"]
    /\ loc' = [loc EXCEPT ![t] = NoLoc]
    /\ bvm_tex_cache' = {it \in bvm_tex_cache : it[1] # loc[t].tex}
    /\ released' = [released EXCEPT ![loc[t].tex] =
                       {it[2] : it \in {x \in bvm_tex_cache : x[1] = loc[t].tex}}]
    /\ UNCHANGED <<bvm_tex_mutex, heap, compiles, acquired, invalidated>>

\* (void)tex;
release_body(t) ==
    /\ pc[t] = "rel_body"
    /\ UNCHANGED <<outsideCache, holding>>
    /\ pc' = [pc EXCEPT ![t] = "idle"]
    /\ loc' = [loc EXCEPT ![t] = NoLoc]
    /\ released' = [released EXCEPT ![loc[t].tex] =
                       {it[2] : it \in {x \in bvm_tex_cache : x[1] = loc[t].tex}}]
    /\ UNCHANGED <<bvm_tex_cache, bvm_tex_mutex, heap,
                   compiles, acquired, invalidated>>

BVM_texture_cache_release(t) ==
    \/ \E k \in Texs : release_call(t, k)
    \/ release_body(t)

\* ---- BVM_texture_cache_invalidate ------------------------------------------
invalidate_call(t, k) ==
    /\ pc[t] = "idle"
    /\ UNCHANGED <<outsideCache, holding>>
    /\ pc' = [pc EXCEPT ![t] = "inv_lock"]
    /\ loc' = [loc EXCEPT ![t] = [NoLoc EXCEPT !.fn = "invalidate", !.tex = k]]
    /\ UNCHANGED <<bvm_tex_cache, bvm_tex_mutex, heap,
                   compiles, acquired, invalidated, released>>

\* scoped_lock lock(bvm_tex_mutex);
invalidate_lock(t) ==
    /\ pc[t] = "inv_lock"
    /\ UNCHANGED <<outsideCache, holding>>
    /\ scoped_lock(t)
    /\ pc' = [pc EXCEPT ![t] = "inv_find"]
    /\ loc' = [loc EXCEPT ![t].cache0 = bvm_tex_cache, ![t].del0 = Deletes,
                          ![t].again = (invalidated[loc[t].tex] # {})]
    /\ UNCHANGED <<bvm_tex_cache, heap,
                   compiles, acquired, invalidated, released>>

\* it = bvm_tex_cache.find(tex); if (it != bvm_tex_cache.end()) ...
invalidate_find(t) ==
    /\ pc[t] = "inv_find"
    /\ UNCHANGED <<outsideCache, holding>>
    /\ LET it == MapFind(bvm_tex_cache, loc[t].tex)
       IN  /\ loc' = [loc EXCEPT ![t].it = it, ![t].hit = (it # End),
                                 ![t].tree0 = IF it # End /\ it[2] # NULL
                                              THEN heap[it[2]].tree ELSE NULL]
           /\ pc' = [pc EXCEPT ![t] = IF it # End THEN "inv_delete" ELSE "inv_ret"]
    /\ UNCHANGED <<bvm_tex_cache, bvm_tex_mutex, heap,
                   compiles, acquired, invalidated, released>>

\* invalidate_delete without the delete: the Expression leaks.
invalidate_delete_leak(t) ==
    /\ pc[t] = "inv_delete"
    /\ UNCHANGED <<outsideCache, holding>>
    /\ pc' = [pc EXCEPT ![t] = "inv_erase"]
    /\ UNCHANGED <<bvm_tex_cache, bvm_tex_mutex, heap, loc,
                   compiles, acquired, invalidated, released>>

\* delete it->second;
invalidate_delete(t) ==
    /\ pc[t] = "inv_delete"
    /\ UNCHANGED <<outsideCache, holding>>
    /\ heap' = ExprDelete(heap, loc[t].it[2])
    /\ pc' = [pc EXCEPT ![t] = "inv_erase"]
    /\ UNCHANGED <<bvm_tex_cache, bvm_tex_mutex, loc,
                   compiles, acquired, invalidated, released>>

\* invalidate_erase without the erase(): the entry stays, dangling.
invalidate_erase_keep(t) ==
    /\ pc[t] = "inv_erase"
    /\ UNCHANGED <<outsideCache, holding>>
    /\ pc' = [pc EXCEPT ![t] = "inv_ret"]
    /\ acquired' = [acquired EXCEPT ![loc[t].tex] = {}]
    /\ invalidated' = [invalidated EXCEPT ![loc[t].tex] =
                          {[expr |-> loc[t].it[2], tree |-> loc[t].tree0]}]
    /\ released' = [released EXCEPT ![loc[t].tex] = {}]
    /\ UNCHANGED <<bvm_tex_cache, bvm_tex_mutex, heap, loc, compiles>>

\* bvm_tex_cache.erase(it);
invalidate_erase(t) ==
    /\ pc[t] = "inv_erase"
    /\ UNCHANGED <<outsideCache, holding>>
    /\ bvm_tex_cache' = MapErase(bvm_tex_cache, loc[t].it)
    /\ pc' = [pc EXCEPT ![t] = "inv_ret"]
    /\ acquired' = [acquired EXCEPT ![loc[t].tex] = {}]
    /\ invalidated' = [invalidated EXCEPT ![loc[t].tex] =
                          {[expr |-> loc[t].it[2], tree |-> loc[t].tree0]}]
    /\ released' = [released EXCEPT ![loc[t].tex] = {}]
    /\ UNCHANGED <<bvm_tex_mutex, heap, loc, compiles>>

\* return (and the scoped_lock leaves scope).
invalidate_return(t) ==
    /\ pc[t] = "inv_ret"
    /\ UNCHANGED <<outsideCache, holding>>
    /\ scoped_unlock(t)
    /\ pc' = [pc EXCEPT ![t] = "idle"]
    /\ loc' = [loc EXCEPT ![t] = NoLoc]
    /\ UNCHANGED <<bvm_tex_cache, heap,
                   compiles, acquired, invalidated, released>>

BVM_texture_cache_invalidate(t) ==
    \/ \E k \in Texs : invalidate_call(t, k)
    \/ invalidate_lock(t)
    \/ invalidate_find(t)
    \/ invalidate_delete(t)
    \/ invalidate_erase(t)
    \/ invalidate_return(t)

\* ---- BVM_texture_cache_clear -----------------------------------------------
clear_call(t) ==
    /\ pc[t] = "idle"
    /\ UNCHANGED <<outsideCache, holding>>
    /\ pc' = [pc EXCEPT ![t] = "clr_lock"]
    /\ loc' = [loc EXCEPT ![t] = [NoLoc EXCEPT !.fn = "clear"]]
    /\ UNCHANGED <<bvm_tex_cache, bvm_tex_mutex, heap,
                   compiles, acquired, invalidated, released>>

\* scoped_lock lock(bvm_tex_mutex); it = bvm_tex_cache.begin();
clear_lock(t) ==
    /\ pc[t] = "clr_lock"
    /\ UNCHANGED <<outsideCache, holding>>
    /\ scoped_lock(t)
    /\ pc' = [pc EXCEPT ![t] = "clr_loop"]
    /\ loc' = [loc EXCEPT ![t].todo = bvm_tex_cache,
                          ![t].cache0 = bvm_tex_cache, ![t].del0 = Deletes]
    /\ UNCHANGED <<bvm_tex_cache, heap,
                   compiles, acquired, invalidated, released>>

\* clear_delete that walks the map without deleting.
clear_delete_skip(t) ==
    /\ pc[t] = "clr_loop"
    /\ UNCHANGED <<outsideCache, holding>>
    /\ \E it \in loc[t].todo :
         loc' = [loc EXCEPT ![t].todo = @ \ {it}]
    /\ UNCHANGED <<bvm_tex_cache, bvm_tex_mutex, heap, pc,
                   compiles, acquired, invalidated, released>>

\* for (it = begin(); it != end(); ++it) delete it->second;
\* an unordered_map is walked in an order the program does not choose.
clear_delete(t) ==
    /\ pc[t] = "clr_loop"
    /\ UNCHANGED <<outsideCache, holding>>
    /\ \E it \in loc[t].todo :
         /\ heap' = ExprDelete(heap, it[2])
         /\ loc' = [loc EXCEPT ![t].todo = @ \ {it}]
    /\ UNCHANGED <<bvm_tex_cache, bvm_tex_mutex, pc,
                   compiles, acquired, invalidated, released>>

\* clear_erase without the clear(): the entries stay, dangling.
clear_erase_keep(t) ==
    /\ pc[t] = "clr_loop"
    /\ UNCHANGED <<outsideCache, holding>>
    /\ loc[t].todo = {}
    /\ pc' = [pc EXCEPT ![t] = "clr_ret"]
    /\ acquired' = [k \in Texs |-> {}]
    /\ released' = [k \in Texs |-> {}]
    /\ UNCHANGED <<bvm_tex_cache, bvm_tex_mutex, heap, loc, compiles, invalidated>>

\* bvm_tex_cache.clear();
clear_erase(t) ==
    /\ pc[t] = "clr_loop"
    /\ UNCHANGED <<outsideCache, holding>>
    /\ loc[t].todo = {}
    /\ bvm_tex_cache' = {}
    /\ pc' = [pc EXCEPT ![t] = "clr_ret"]
    /\ acquired' = [k \in Texs |-> {}]
    /\ released' = [k \in Texs |-> {}]
    /\ UNCHANGED <<bvm_tex_mutex, heap, loc, compiles, invalidated>>

\* return (and the scoped_lock leaves scope).
clear_return(t) ==
    /\ pc[t] = "clr_ret"
    /\ UNCHANGED <<outsideCache, holding>>
    /\ scoped_unlock(t)
    /\ pc' = [pc EXCEPT ![t] = "idle"]
    /\ loc' = [loc EXCEPT ![t] = NoLoc]
    /\ UNCHANGED <<bvm_tex_cache, heap,
                   compiles, acquired, invalidated, released>>

BVM_texture_cache_clear(t) ==
    \/ clear_call(t)
    \/ clear_lock(t)
    \/ clear_delete(t)
    \/ clear_erase(t)
    \/ clear_return(t)

\* ---- BVM_free --------------------------------------------------------------
\* BVM_free() { BVM_texture_cache_clear(); }
BVM_free(t) ==
    /\ pc[t] = "idle"
    /\ UNCHANGED <<outsideCache, holding>>
    /\ pc' = [pc EXCEPT ![t] = "clr_lock"]
    /\ loc' = [loc EXCEPT ![t] = [NoLoc EXCEPT !.fn = "free"]]
    /\ UNCHANGED <<bvm_tex_cache, bvm_tex_mutex, heap,
                   compiles, acquired, invalidated, released>>

\* ---- the system --------------------------------------------------------------
Next ==
    \/ \E t \in Threads : BVM_texture_cache_acquire(t)
    \/ \E t \in Threads : BVM_texture_cache_release(t)
    \/ \E t \in Threads : BVM_texture_cache_invalidate(t)
    \/ \E t \in Threads : BVM_texture_cache_clear(t)
    \/ \E t \in Threads : BVM_free(t)

Spec == Init /\ [][Next]_vars

\* A step of thread t inside the call it made.
Running(t) ==
    \/ acquire_lock(t)
    \/ \E use_nodes \in BOOLEAN, nodetree \in Trees \cup {NULL} :
          acquire_find(t, use_nodes, nodetree)
    \/ BVM_gen_texture_expression(t)
    \/ acquire_store(t)
    \/ acquire_return(t)
    \/ release_body(t)
    \/ invalidate_lock(t)
    \/ invalidate_find(t)
    \/ invalidate_delete(t)
    \/ invalidate_erase(t)
    \/ invalidate_return(t)
    \/ clear_lock(t)
    \/ clear_delete(t)
    \/ clear_erase(t)
    \/ clear_return(t)

\* The cache under fair scheduling: a thread inside a call goes on, and a
\* thread that waits for the mutex gets it if it is free again and again.
SpecFair == Spec /\ \A t \in Threads : SF_vars(Running(t))

TypeOK ==
    /\ bvm_tex_mutex \in Threads \cup {NULL}
    /\ \A it \in bvm_tex_cache : it[1] \in Texs /\ it[2] \in ExprIds \cup {NULL}
    /\ \A e \in ExprIds : heap[e].deletes \in 0..MaxDeletes


\* ---- properties of the cache ---------------------------------------------------
EntriesFor(k) == {it \in bvm_tex_cache : it[1] = k}

LiveFor(k) == {e \in ExprIds : Live(e) /\ heap[e].tex = k}

\* C1: in every reachable state the cache holds at most one entry per source
\* key, and at most one Expression the cache created for that key is live
\* (created and not yet destroyed).
C1_OneLivePerKey ==
    \A k \in Texs : /\ Cardinality(EntriesFor(k)) <= 1
                    /\ Cardinality(LiveFor(k)) <= 1

\* A key that was invalidated is acquired again while another thread waits to
\* invalidate the same key: the old Expression is gone and one new one is live.
C1_Witness ==
    \E t \in Threads, u \in Threads :
        /\ pc[t] = "acq_ret" /\ ~loc[t].hit /\ loc[t].ret # NULL
        /\ \E old \in invalidated[loc[t].tex] : old.expr # NULL
        /\ LiveFor(loc[t].tex) = {loc[t].ret}
        /\ pc[u] = "inv_lock" /\ loc[u].tex = loc[t].tex

\* The thread that takes the step.
Steps(t) == pc'[t] # pc[t] \/ loc'[t] # loc[t]

\* C2: every Expression the cache stored is destroyed at most once, and only
\* by a step of invalidate or clear that holds the lock; no step of acquire or
\* release destroys an Expression.
C2_DestroyedOnceByCache ==
    /\ [](\A e \in ExprIds : heap[e].deletes <= 1)
    /\ [][\A e \in ExprIds :
            heap'[e].deletes # heap[e].deletes =>
                /\ heap[e].deletes = 0 /\ heap'[e].deletes = 1
                /\ \E t \in Threads :
                      /\ Steps(t)
                      /\ bvm_tex_mutex = t
                      /\ pc[t] \in {"inv_delete", "clr_loop"}
                      /\ loc[t].fn \in {"invalidate", "clear", "free"}]_vars

\* One Expression was destroyed by an earlier call and clear has destroyed
\* another one.
C2_Witness ==
    \E t \in Threads, e \in ExprIds, f \in ExprIds :
        /\ pc[t] = "clr_ret" /\ loc[t].fn = "clear"
        /\ loc[t].del0[e] = 1
        /\ loc[t].del0[f] = 0 /\ heap[f].deletes = 1

C5_InvalidateIdempotent ==
    \A t \in Threads :
        pc[t] = "inv_ret" =>
            /\ EntriesFor(loc[t].tex) = {}
            /\ ~loc[t].hit => /\ bvm_tex_cache = loc[t].cache0
                              /\ Deletes = loc[t].del0
            /\ loc[t].hit => /\ bvm_tex_cache = loc[t].cache0 \ {loc[t].it}
                             /\ \A e \in ExprIds \ {loc[t].it[2]} :
                                    heap[e].deletes = loc[t].del0[e]
            /\ loc[t].again => ~loc[t].hit

\* The second of two invalidate(key) calls in a row returns, with another key
\* still cached.
C5_Witness ==
    \E t \in Threads :
        /\ pc[t] = "inv_ret" /\ loc[t].again /\ ~loc[t].hit
        /\ \E e \in ExprIds : heap[e].deletes = 1
        /\ \E it \in bvm_tex_cache : it[1] # loc[t].tex /\ it[2] # NULL

\* C6: when clear() returns, and so when BVM_free returns, the cache holds no
\* entry and every Expression that was cached when clear took the lock has
\* been destroyed exactly once; every Expression ever created is by then
\* destroyed exactly once, whatever calls came before.
C6_ClearDestroysAll ==
    \A t \in Threads :
        (pc[t] = "clr_ret" /\ loc[t].fn \in {"clear", "free"}) =>
            /\ bvm_tex_cache = {}
            /\ \A it \in loc[t].cache0 :
                  it[2] # NULL => /\ loc[t].del0[it[2]] = 0
                                  /\ heap[it[2]].deletes = 1
            /\ \A e \in ExprIds : heap[e].alloc => heap[e].deletes = 1

\* BVM_free returns after it destroyed the Expressions of two keys.
C6_Witness ==
    \E t \in Threads :
        /\ pc[t] = "clr_ret" /\ loc[t].fn = "free"
        /\ Cardinality({it \in loc[t].cache0 : it[2] # NULL}) = 2

\* C7: release(key) is a no-op: its step leaves the map, every Expression,
\* the compile counts and the lock as they are, and an acquire(key) that
\* follows a release(key) of a cached key, with no invalidate or clear between
\* them, returns the cached Expression without compiling.
C7_ReleaseIsNoOp ==
    /\ [][\A t \in Threads :
            (pc[t] = "rel_body" /\ pc'[t] # "rel_body") =>
                /\ bvm_tex_cache' = bvm_tex_cache
                /\ heap' = heap
                /\ compiles' = compiles
                /\ bvm_tex_mutex' = bvm_tex_mutex]_vars
    /\ [](\A t \in Threads :
            pc[t] = "acq_ret" =>
                \A e \in loc[t].rel0 :
                    /\ loc[t].ret = e
                    /\ loc[t].hit
                    /\ compiles[loc[t].tex] = loc[t].c0
                    /\ e # NULL => Live(e))

\* An acquire that follows the release of a cached key is about to return the
\* Expression the release saw.
C7_Witness ==
    \E t \in Threads :
        /\ pc[t] = "acq_ret" /\ loc[t].ret # NULL
        /\ loc[t].rel0 = {loc[t].ret}


\* C8: whenever the source has no node graph when acquire reads it (use_nodes
\* off or no node tree), acquire returns "no expression", compiles nothing and
\* inserts no entry, whatever calls came before.
C8_NoNodesNoExpression ==
    \A t \in Threads :
        (pc[t] = "acq_ret" /\ ~loc[t].nodes) =>
            /\ loc[t].ret = NULL
            /\ compiles[loc[t].tex] = loc[t].c0
            /\ bvm_tex_cache = loc[t].cache0

\* Positions at which the code is inside a scoped_lock.
LockedPcs == {"acq_find", "acq_compile", "acq_store", "acq_ret",
              "inv_find", "inv_delete", "inv_erase", "inv_ret",
              "clr_loop", "clr_ret"}

Compiling(t) == pc[t] \in {"acq_compile", "acq_store"}

\* C9 as stated: acquire does not hold the cache lock while it builds and
\* compiles the graph.
C9_CompilesOutsideLock ==
    \A t \in Threads : pc[t] = "acq_compile" => bvm_tex_mutex # t

\* C9 as amended: acquire holds the cache lock from before the lookup until
\* it returns, graph construction and compilation included, and so do
\* invalidate and clear; at no time are two acquire calls compiling.
C9_LockHeldThroughout ==
    /\ \A t \in Threads : pc[t] \in LockedPcs => bvm_tex_mutex = t
    /\ Cardinality({t \in Threads : Compiling(t)}) <= 1

\* One acquire is compiling a new key while a second acquire of the same key
\* waits for the lock.
C9_Witness ==
    \E t \in Threads, u \in Threads :
        /\ pc[t] = "acq_compile" /\ bvm_tex_mutex = t
        /\ pc[u] = "acq_lock" /\ loc[u].tex = loc[t].tex

\* The state of a source key in the cache.
State(k) ==
    IF EntriesFor(k) # {} THEN "Ready"
    ELSE IF \E t \in Threads : Compiling(t) /\ loc[t].tex = k THEN "Compiling"
    ELSE "Absent"

C20_HeldExpressionStaysAlive ==
    [][\A t \in Threads : \A h \in holding[t] :
           (Live(h[2]) /\ ~Live(h[2])') =>
               <<pc[t], loc[t]>>' # <<pc[t], loc[t]>>]_vars

\* C21: every entry of the cache maps its key to an Expression, never to
\* NULL: an acquire whose compilation yields no artifact returns NULL and
\* leaves its key without an entry, so that a later acquire compiles again.
C21_NoNullEntry ==
    /\ \A it \in bvm_tex_cache : it[2] # NULL
    /\ \A t \in Threads :
           (pc[t] = "acq_ret" /\ ~loc[t].hit /\ loc[t].nodes
                /\ loc[t].ret = NULL) =>
               MapFind(bvm_tex_cache, loc[t].tex) = End

\* The positions where a call waits for the mutex.
WaitingPcs == {"acq_lock", "inv_lock", "clr_lock"}

NumOps     == 2      \* opcodes in BVM_DEFINE_OPCODES
MaxInputs  == 1      \* inputs of a node type
MaxOutputs == 2      \* outputs of a node type
MaxIndex   == 2      \* runtime indices of a call run from -1 to MaxIndex
MaxValue   == 2      \* derivative values of a call run from 1 to MaxValue

SeqsUpTo(S, n) == UNION {[1..m -> S] : m \in 0..n}

\* ---- TypeSpec ---------------------------------------------------------------
\* A TypeSpec is known here by what the compiler asks of it: whether it
\* carries a dual value, is an aggregate, is a structure, and has a native
\* (llvm) type.
TypeSpecs == [dual : BOOLEAN, aggregate : BOOLEAN, structure : BOOLEAN,
              native : BOOLEAN]

bvm_type_has_dual_value(typespec) == typespec.dual

is_aggregate(typespec) == typespec.aggregate

is_structure(typespec) == typespec.structure

\* A type, or NULL for a TypeSpec without native representation.
bvm_get_llvm_type(typespec) == IF typespec.native THEN 1 ELSE NULL

\* The TypeSpecs of the sockets of the node types: a scalar with derivatives,
\* a scalar without, and one with no native type.
SocketSpecs ==
    {ts \in TypeSpecs : /\ ~ts.aggregate /\ ~ts.structure
                        /\ (ts.dual => ts.native)}

\* ---- NodeType ---------------------------------------------------------------
\* NodeInput: typedesc and value_type; NodeOutput: typedesc.
NodeInputs == [typespec : SocketSpecs,
               value_type : {"INPUT_CONSTANT", "INPUT_EXPRESSION"}]

NodeOutputs == [typespec : SocketSpecs]

NodeTypes == [inputs : SeqsUpTo(NodeInputs, MaxInputs),
              outputs : SeqsUpTo(NodeOutputs, MaxOutputs)]

\* The node types of the GET_DERIVATIVE opcodes: the value of one derivative
\* of the input "value" (input 1), picked by the constant input "variable"
\* (input 0).
DerivativeSpecs == {ts \in TypeSpecs : ts.dual /\ ts.native /\ ~ts.structure}

DerivativeNodeTypes ==
    {[inputs |-> <<[typespec |-> CHOOSE int \in SocketSpecs : ~int.dual /\ int.native,
                    value_type |-> "INPUT_CONSTANT"],
                   [typespec |-> ts, value_type |-> "INPUT_EXPRESSION"]>>,
      outputs |-> <<[typespec |-> ts]>>] : ts \in DerivativeSpecs}

NoNodeType == <<>>

num_inputs(nt) == Len(nt.inputs)

num_outputs(nt) == Len(nt.outputs)

find_input(nt, i) == nt.inputs[i + 1]

find_output(nt, i) == nt.outputs[i + 1]

\* ---- opcodes ---------------------------------------------------------------
\* BVM_DEFINE_OPCODES, in the order define_nodes_module walks it.
OpCodes == 1..NumOps

\* The special case of define_node_function.
OP_GET_DERIVATIVE_FLOAT == NumOps

\* ---- llvm IR ---------------------------------------------------------------
\* Operands: the i-th argument of the function (from 1), the zero constant,
\* the value a load from the i-th argument gave, a pointer read from outside
\* an array.
Arg(i) == <<"arg", i>>

Zero == <<"zero", 0>>

Loaded(i) == <<"load", i>>

Undef == <<"undef", 0>>

NoOperand == <<"", 0>>

\* Function names: bvm_value_function_name, bvm_deriv_function_name, and the
\* node type's own name for the wrapper.
bvm_value_function_name(name) == <<"value", name>>

bvm_deriv_function_name(name) == <<"deriv", name>>

NoName == <<"", 0>>

Instr(op, fn, xs, dflt, cases) ==
    [op |-> op, fn |-> fn, xs |-> xs, dflt |-> dflt, cases |-> cases]

CreateCall(fn, args) == Instr("call", fn, args, "", <<>>)

CreateStore(val, ptr) == Instr("store", NoName, <<val, ptr>>, "", <<>>)

CreateLoad(ptr) == Instr("load", NoName, <<ptr>>, "", <<>>)

CreateBr(dest) == Instr("br", NoName, <<>>, dest, <<>>)

CreateSwitch(v, dest, cases) == Instr("switch", NoName, <<v>>, dest, cases)

CreateRetVoid == Instr("ret", NoName, <<>>, "", <<>>)

BasicBlock(label, instrs) == [label |-> label, instrs |-> instrs]

\* Function::Create: a Function of nargs arguments, without body. by and
\* nodetype keep what made it, deriv whether its wrapper found a derivative
\* function.
Function(name, nargs, nt, by) ==
    [name |-> name, nargs |-> nargs, blocks |-> <<>>,
     nodetype |-> nt, by |-> by, deriv |-> FALSE]

\* ---- use_argument_pointer ----------------------------------------------------
\* The policy without its first branch: use_dual has no say.
use_argument_pointer_nodual(typespec, use_dual) ==
    IF is_aggregate(typespec) \/ is_structure(typespec)
    THEN TRUE
    ELSE FALSE

use_argument_pointer(typespec, use_dual) ==
    IF use_dual /\ bvm_type_has_dual_value(typespec)
    THEN TRUE      \* pass by reference
    ELSE IF is_aggregate(typespec) \/ is_structure(typespec)
    THEN TRUE      \* pass by reference
    ELSE FALSE     \* pass by value

use_elementary_argument_pointer(typespec) ==
    IF is_aggregate(typespec) \/ is_structure(typespec)
    THEN TRUE      \* pass by reference
    ELSE FALSE     \* pass by value

\* ---- parameter lists -------------------------------------------------------
\* append_input_types: one parameter, and two more for the derivatives.
append_input_types(spec, is_constant) ==
    IF ~is_constant /\ bvm_type_has_dual_value(spec) THEN 3 ELSE 1

\* append_output_types
append_output_types(spec) ==
    IF bvm_type_has_dual_value(spec) THEN 3 ELSE 1

RECURSIVE SumSeq(_)
SumSeq(q) == IF q = <<>> THEN 0 ELSE Head(q) + SumSeq(Tail(q))

\* Some socket of the node type has no native type.
TypeError(nt) ==
    \/ \E i \in 1..num_inputs(nt) : bvm_get_llvm_type(nt.inputs[i].typespec) = NULL
    \/ \E i \in 1..num_outputs(nt) : bvm_get_llvm_type(nt.outputs[i].typespec) = NULL

\* declare_node_function: the Function of a node type, with the parameters of
\* its outputs and then of its inputs; NULL (no Function) when a TypeSpec has
\* no native type.
declare_node_function(name, nt, by) ==
    IF TypeError(nt) THEN {}
    ELSE {Function(name,
            SumSeq([i \in 1..num_outputs(nt) |->
                       append_output_types(nt.outputs[i].typespec)])
          + SumSeq([i \in 1..num_inputs(nt) |->
                       append_input_types(nt.inputs[i].typespec,
                           nt.inputs[i].value_type = "INPUT_CONSTANT")]),
            nt, by)}

\* declare_elementary_node_function: input_types and output_types as the two
\* loops fill them, an error when a type is NULL; NULL (no Function) on error.
declare_elementary_node_function(nt, name, with_derivatives) ==
    LET input_types ==
            [i \in 1..num_inputs(nt) |->
                IF /\ with_derivatives
                   /\ nt.inputs[i].value_type # "INPUT_CONSTANT"
                   /\ bvm_type_has_dual_value(nt.inputs[i].typespec)
                THEN 2 ELSE 1]
        output_types == [i \in 1..num_outputs(nt) |-> 1]
        error == TypeError(nt)
    IN  IF error THEN {}
        ELSE {Function(name, SumSeq(input_types) + SumSeq(output_types), nt,
                       "declare_elementary_node_function")}

\* llvm_find_external_function: the Function of that name, if the module has it.
llvm_find_external_function(m, name) == {f \in m : f.name = name}

\* ---- define_dual_function_wrapper: the arguments --------------------------
\* The walk of arg_it over the sockets from the i-th on: a socket for which
\* three[i] holds takes val, dx and dy from the argument list, another takes
\* val alone and has dx = dy = NULL.
RECURSIVE collect_arguments(_, _, _)
collect_arguments(three, i, arg_it) ==
    IF i > Len(three) THEN <<>>
    ELSE IF three[i]
    THEN <<[val |-> arg_it, dx |-> arg_it + 1, dy |-> arg_it + 2]>>
         \o collect_arguments(three, i + 1, arg_it + 3)
    ELSE <<[val |-> arg_it, dx |-> NULL, dy |-> NULL]>>
         \o collect_arguments(three, i + 1, arg_it + 1)

output_arguments(nt) ==
    collect_arguments(
        [i \in 1..num_outputs(nt) |->
            bvm_type_has_dual_value(find_output(nt, i - 1).typespec)], 1, 1)

\* arg_it after the walk that gave args, begun at arg_it.
ArgEnd(args, arg_it) ==
    arg_it + SumSeq([i \in 1..Len(args) |-> IF args[i].dx = NULL THEN 1 ELSE 3])

input_arguments(nt) ==
    LET arg_it == ArgEnd(output_arguments(nt), 1)
    IN  collect_arguments(
            [i \in 1..num_inputs(nt) |->
                /\ find_input(nt, i - 1).value_type # "INPUT_CONSTANT"
                /\ bvm_type_has_dual_value(find_input(nt, i - 1).typespec)],
            1, arg_it)

\* call_args_value: every val, outputs first.
call_args_value(outs, ins) ==
    [i \in 1..Len(outs) |-> outs[i].val] \o [i \in 1..Len(ins) |-> ins[i].val]

RECURSIVE input_args_dx(_, _)
input_args_dx(ins, i) ==
    IF i > Len(ins) THEN <<>>
    ELSE <<ins[i].val>> \o (IF ins[i].dx # NULL THEN <<ins[i].dx>> ELSE <<>>)
         \o input_args_dx(ins, i + 1)

RECURSIVE input_args_dy(_, _)
input_args_dy(ins, i) ==
    IF i > Len(ins) THEN <<>>
    ELSE <<ins[i].val>> \o (IF ins[i].dy # NULL THEN <<ins[i].dy>> ELSE <<>>)
         \o input_args_dy(ins, i + 1)

\* call_args_dx whose inputs come without their values.
call_args_dx_novalue(outs, ins) ==
    LET d == SelectSeq(outs, LAMBDA a : a.dx # NULL)
        e == SelectSeq(ins, LAMBDA a : a.dx # NULL)
    IN  [i \in 1..Len(d) |-> d[i].dx] \o [i \in 1..Len(e) |-> e[i].dx]

\* call_args_dx: the dx of the outputs that have one, then of every input its
\* val and, if it has one, its dx.
call_args_dx(outs, ins) ==
    LET d == SelectSeq(outs, LAMBDA a : a.dx # NULL)
    IN  [i \in 1..Len(d) |-> d[i].dx] \o input_args_dx(ins, 1)

call_args_dy(outs, ins) ==
    LET d == SelectSeq(outs, LAMBDA a : a.dy # NULL)
    IN  [i \in 1..Len(d) |-> d[i].dy] \o input_args_dy(ins, 1)

Args(q) == [i \in 1..Len(q) |-> Arg(q[i])]

\* v[i] of a std::vector (i from 1): outside the vector the read is undefined
\* and gives w.
At(v, i, w) == IF i <= Len(v) THEN Arg(v[i]) ELSE w

\* What an undefined read of a Value* can give inside func: one of its
\* arguments, or a pointer to nothing of the function.
WildPointers(func) == {Arg(j) : j \in 1..func.nargs} \cup {Undef}

\* The outputs whose index lies outside call_args_dx (and call_args_dy).
OutOfRange(nt, adx) ==
    {i \in 1..num_outputs(nt) :
        /\ bvm_type_has_dual_value(find_output(nt, i - 1).typespec)
        /\ i > Len(adx)}

\* zero the derivatives: the stores of the loop from output i on.
RECURSIVE zero_derivatives(_, _, _, _, _)
zero_derivatives(nt, i, adx, ady, wild) ==
    IF i > num_outputs(nt) THEN <<>>
    ELSE (IF bvm_type_has_dual_value(find_output(nt, i - 1).typespec)
          THEN LET w == IF i <= Len(adx) THEN <<Undef, Undef>> ELSE wild[i]
               IN  <<CreateStore(Zero, At(adx, i, w[1])),
                     CreateStore(Zero, At(ady, i, w[2]))>>
          ELSE <<>>)
         \o zero_derivatives(nt, i + 1, adx, ady, wild)

\* ---- define_nodes_module ---------------------------------------------------
\* Module *mod = new llvm::Module("texture_nodes", context()); and the first
\* opcode is next. The build is debug or release.
InitNodes ==
    /\ mod = {}
    /\ m_nodes_module = <<>>
    /\ op_it = 1
    /\ at = "define_node_function"
    /\ nodetype = NoNodeType
    /\ build \in {"debug", "release"}
    /\ fault = "none"
    /\ call = <<>>

\* What NodeGraph::find_node_type can give for the name of opcode op: NULL, or
\* the node type registered under the name.
find_node_type(op) ==
    {NoNodeType} \cup
    {<<nt>> : nt \in IF op = OP_GET_DERIVATIVE_FLOAT THEN DerivativeNodeTypes
                    ELSE NodeTypes}

\* The process is over: an assertion that failed, or a crash.
Abort(why) ==
    /\ fault' = why
    /\ at' = "abort"
    /\ UNCHANGED <<mod, op_it, nodetype>>

\* Back in define_nodes_module, at the next DEF_OPCODE.
NextOpcode ==
    /\ op_it' = op_it + 1
    /\ at' = "define_node_function"
    /\ nodetype' = NoNodeType
    /\ fault' = fault

\* define_node_function(mod, op, nodetype_name), up to the switch.
define_node_function(found) ==
    /\ at = "define_node_function"
    /\ op_it \in OpCodes
    /\ found \in find_node_type(op_it)
    /\ IF found = NoNodeType
       THEN NextOpcode
       ELSE /\ nodetype' = found
            /\ at' = IF op_it = OP_GET_DERIVATIVE_FLOAT
                     THEN "define_get_derivative"
                     ELSE "define_elementary_functions"
            /\ UNCHANGED <<op_it, fault>>
    /\ UNCHANGED <<mod, m_nodes_module, build, call>>
    /\ UNCHANGED outsideNodes

\* define_elementary_functions(mod, op, nodetype); has_value and has_deriv are
\* llvm_has_external_impl_value(op) and llvm_has_external_impl_deriv(op).
\* set_node_function_impl returns at once.
define_elementary_functions(has_value, has_deriv) ==
    /\ at = "define_elementary_functions"
    /\ LET nt == nodetype[1]
           value_func == IF has_value
                         THEN declare_elementary_node_function(
                                  nt, bvm_value_function_name(op_it), FALSE)
                         ELSE {}
           deriv_func == IF has_deriv
                         THEN declare_elementary_node_function(
                                  nt, bvm_deriv_function_name(op_it), TRUE)
                         ELSE {}
       IN  mod' = mod \cup value_func \cup deriv_func
    /\ at' = "define_dual_function_wrapper"
    /\ UNCHANGED <<m_nodes_module, op_it, nodetype, build, fault, call>>
    /\ UNCHANGED outsideNodes

\* The body of the wrapper: the call of the value function, the two calls of
\* the derivative function or the zeroed derivatives, and the return.
wrapper_body(nt, value_func, deriv_func, wild) ==
    LET outs == output_arguments(nt)
        ins  == input_arguments(nt)
        adx  == call_args_dx(outs, ins)
        ady  == call_args_dy(outs, ins)
    IN  <<CreateCall(value_func, Args(call_args_value(outs, ins)))>>
        \o (IF deriv_func # NoName
            THEN <<CreateCall(deriv_func, Args(adx)),
                   CreateCall(deriv_func, Args(ady))>>
            ELSE zero_derivatives(nt, 1, adx, ady, wild))
        \o <<CreateRetVoid>>

\* define_dual_function_wrapper(mod, op, nodetype)
define_dual_function_wrapper ==
    /\ at = "define_dual_function_wrapper"
    /\ LET nt == nodetype[1]
           value_func == llvm_find_external_function(mod, bvm_value_function_name(op_it))
           deriv_func == llvm_find_external_function(mod, bvm_deriv_function_name(op_it))
           func == declare_node_function(<<"node", op_it>>, nt,
                                         "define_dual_function_wrapper")
           outs == output_arguments(nt)
           ins  == input_arguments(nt)
       IN  IF value_func = {} /\ build = "debug"
           THEN \* BLI_assert(value_func != NULL && "Could not find node function!")
                Abort("BLI_assert(value_func != NULL)")
           ELSE IF func = {}
           THEN \* if (func == NULL) return;
                /\ NextOpcode
                /\ mod' = mod
           ELSE IF value_func = {}
           THEN \* builder.CreateCall(value_func, ...) of a null Function
                Abort("CreateCall(NULL)")
           ELSE IF /\ build = "debug"
                   /\ \E f \in func : ArgEnd(ins, ArgEnd(outs, 1)) # f.nargs + 1
           THEN \* BLI_assert(arg_it == func->arg_end() && ...)
                Abort("BLI_assert(arg_it == func->arg_end())")
           ELSE \E f \in func :
                \E wild \in [OutOfRange(nt, call_args_dx(outs, ins)) ->
                                WildPointers(f) \X WildPointers(f)] :
                  /\ mod' = mod \cup
                       {[f EXCEPT !.deriv = (deriv_func # {}),
                                  !.blocks = <<BasicBlock("entry",
                                      wrapper_body(nt,
                                          bvm_value_function_name(op_it),
                                          IF deriv_func # {}
                                          THEN bvm_deriv_function_name(op_it)
                                          ELSE NoName,
                                          wild))>>]}
                  /\ NextOpcode
    /\ UNCHANGED <<m_nodes_module, build, call>>
    /\ UNCHANGED outsideNodes

\* sw->addCase(idx0, block_var0); sw->addCase(idx1, block_var1); with the two
\* blocks exchanged.
derivative_cases_swapped == <<<<0, "var1">>, <<1, "var0">>>>

\* sw->addCase(idx0, block_var0); sw->addCase(idx1, block_var1);
derivative_cases == <<<<0, "var0">>, <<1, "var1">>>>

\* The four blocks of the function define_get_derivative writes. Its arguments
\* in the order arg_it takes them: out_val, out_dx, out_dy, var, in_val,
\* in_dx, in_dy.
get_derivative_blocks(typespec) ==
    LET out_val == 1
        out_dx  == 2
        out_dy  == 3
        var     == 4
        in_dx   == 6
        in_dy   == 7
        byref   == use_argument_pointer(typespec, FALSE)
    IN  << BasicBlock("entry",
             <<CreateStore(Zero, Arg(out_dx)),
               CreateStore(Zero, Arg(out_dy)),
               CreateSwitch(Arg(var), "end", derivative_cases)>>),
           BasicBlock("var0",
             (IF byref THEN <<CreateLoad(Arg(in_dx))>> ELSE <<>>)
             \o <<CreateStore(IF byref THEN Loaded(in_dx) ELSE Arg(in_dx),
                              Arg(out_val)),
                  CreateBr("end")>>),
           BasicBlock("var1",
             (IF byref THEN <<CreateLoad(Arg(in_dy))>> ELSE <<>>)
             \o <<CreateStore(IF byref THEN Loaded(in_dy) ELSE Arg(in_dy),
                              Arg(out_val)),
                  CreateBr("end")>>),
           BasicBlock("end", <<CreateRetVoid>>) >>

\* define_get_derivative(mod, op, nodetype)
define_get_derivative ==
    /\ at = "define_get_derivative"
    /\ LET nt == nodetype[1]
           func == declare_node_function(<<"node", op_it>>, nt,
                                         "define_get_derivative")
           typespec == find_input(nt, 1).typespec
       IN  mod' = mod \cup
                  {[f EXCEPT !.blocks = get_derivative_blocks(typespec)] :
                       f \in func}
    /\ NextOpcode
    /\ UNCHANGED <<m_nodes_module, build, call>>
    /\ UNCHANGED outsideNodes

\* m_nodes_module = mod; after the last DEF_OPCODE.
define_nodes_module ==
    /\ at = "define_node_function"
    /\ op_it \notin OpCodes
    /\ m_nodes_module' = <<mod>>
    /\ at' = "done"
    /\ UNCHANGED <<mod, op_it, nodetype, build, fault, call>>
    /\ UNCHANGED outsideNodes

\* ---- a call of a compiled node function --------------------------------------
\* Run-time values: a number, or the address of the cell an argument owns.
Val(n) == <<"val", n>>

Ptr(i) == <<"ptr", i>>

Indices == (0 - 1)..MaxIndex

Values == 1..MaxValue

\* The function of the GET_DERIVATIVE node type in the finished module.
GetDerivativeFunctions ==
    IF m_nodes_module = <<>> THEN {}
    ELSE {f \in m_nodes_module[1] : f.by = "define_get_derivative"}

\* The frame of a call: the value of every argument (argv), the cells behind
\* the pointer arguments (mem), the last load (reg), the block to run next
\* ("" after the return), and, kept to state the properties, the blocks run
\* (path) and the stores made (stores, each <<cell, value>>).
Frame(f, argv, mem) ==
    [func |-> f, argv |-> argv, mem |-> mem, reg |-> Val(0),
     block |-> "entry", path |-> <<>>, stores |-> <<>>, ub |-> FALSE]

\* The caller's arguments: the three output slots by address, the index by
\* value, the input and its derivatives by address or by value as
\* use_argument_pointer says.
call_get_derivative(f, var, in_dx, in_dy) ==
    /\ at = "done"
    /\ call = <<>>
    /\ f \in GetDerivativeFunctions
    /\ LET typespec == find_input(f.nodetype, 1).typespec
           byref == use_argument_pointer(typespec, FALSE)
           argv == [i \in 1..f.nargs |->
                      CASE i \in 1..3 -> Ptr(i)
                        [] i = 4      -> Val(var)
                        [] i = 5      -> IF byref THEN Ptr(i) ELSE Val(0)
                        [] i = 6      -> IF byref THEN Ptr(i) ELSE Val(in_dx)
                        [] OTHER      -> IF byref THEN Ptr(i) ELSE Val(in_dy)]
           mem  == [i \in 1..f.nargs |->
                      CASE i = 6 -> Val(in_dx)
                        [] i = 7 -> Val(in_dy)
                        [] OTHER -> Val(0)]
       IN  call' = <<Frame(f, argv, mem)>>
    /\ UNCHANGED <<mod, m_nodes_module, op_it, at, nodetype, build, fault>>
    /\ UNCHANGED outsideNodes

\* The value of an operand in frame c.
Eval(c, x) ==
    CASE x[1] = "arg"  -> c.argv[x[2]]
      [] x[1] = "zero" -> Val(0)
      [] x[1] = "load" -> c.reg
      [] OTHER         -> Val(0)

\* The frame after the instructions of a block from the i-th on.
RECURSIVE RunBlock(_, _, _)
RunBlock(instrs, i, c) ==
    IF i > Len(instrs) THEN c
    ELSE LET ins == instrs[i]
             p   == Eval(c, ins.xs[Len(ins.xs)])
         IN  CASE ins.op = "store" ->
                    IF p[1] = "ptr"
                    THEN RunBlock(instrs, i + 1,
                           [c EXCEPT !.mem[p[2]] = Eval(c, ins.xs[1]),
                                     !.stores = Append(@, <<p[2], Eval(c, ins.xs[1])>>)])
                    ELSE [c EXCEPT !.ub = TRUE, !.block = ""]
               [] ins.op = "load" ->
                    IF p[1] = "ptr"
                    THEN RunBlock(instrs, i + 1, [c EXCEPT !.reg = c.mem[p[2]]])
                    ELSE [c EXCEPT !.ub = TRUE, !.block = ""]
               [] ins.op = "switch" ->
                    LET hit == {k \in 1..Len(ins.cases) : Val(ins.cases[k][1]) = p}
                    IN  [c EXCEPT !.block = IF hit = {} THEN ins.dflt
                                            ELSE ins.cases[CHOOSE k \in hit : TRUE][2]]
               [] ins.op = "br"  -> [c EXCEPT !.block = ins.dflt]
               [] OTHER          -> [c EXCEPT !.block = ""]

\* One basic block of the running call.
exec_block ==
    /\ call # <<>>
    /\ call[1].block # ""
    /\ LET c == call[1]
           b == CHOOSE b \in {c.func.blocks[k] : k \in 1..Len(c.func.blocks)} :
                    b.label = c.block
       IN  call' = <<RunBlock(b.instrs, 1, [c EXCEPT !.path = Append(@, b.label)])>>
    /\ UNCHANGED <<mod, m_nodes_module, op_it, at, nodetype, build, fault>>
    /\ UNCHANGED outsideNodes

\* The call has returned; the caller is free to make another.
call_return ==
    /\ call # <<>>
    /\ call[1].block = ""
    /\ call' = <<>>
    /\ UNCHANGED <<mod, m_nodes_module, op_it, at, nodetype, build, fault>>
    /\ UNCHANGED outsideNodes

\* ---- the system -----------------------------------------------------------
NextNodes ==
    \/ \E found \in find_node_type(op_it) : define_node_function(found)
    \/ \E has_value \in BOOLEAN, has_deriv \in BOOLEAN :
          define_elementary_functions(has_value, has_deriv)
    \/ define_dual_function_wrapper
    \/ define_get_derivative
    \/ define_nodes_module
    \/ \E f \in GetDerivativeFunctions, var \in Indices,
          in_dx \in Values, in_dy \in Values :
          call_get_derivative(f, var, in_dx, in_dy)
    \/ exec_block
    \/ call_return

InitNodesModule ==
    /\ InitNodes
    /\ cacheAtRest
    /\ lowerAtRest
    /\ mathAtRest
    /\ graphAtRest
    /\ argsAtRest
    /\ keysAtRest
    /\ sculptAtRest

SpecNodes == InitNodesModule /\ [][NextNodes]_vars


\* ---- properties of the node functions ------------------------------------------
\* The place in the wrapper's argument list of slot k (0 value, 1 dx, 2 dy) of
\* output i and of input i (both from 1): outputs come first, a dual-carrying
\* output and a dual-carrying input that is no constant have three slots.
OutputIsDual(nt, i) == nt.outputs[i].typespec.dual

InputIsDual(nt, i) ==
    nt.inputs[i].typespec.dual /\ nt.inputs[i].value_type # "INPUT_CONSTANT"

OutputSlot(nt, i, k) ==
    i + 2 * Cardinality({j \in 1..(i - 1) : OutputIsDual(nt, j)}) + k

InputSlot(nt, i, k) ==
    num_outputs(nt) + 2 * Cardinality({j \in 1..num_outputs(nt) : OutputIsDual(nt, j)})
    + i + 2 * Cardinality({j \in 1..(i - 1) : InputIsDual(nt, j)}) + k

DualWrappers == {f \in mod : f.by = "define_dual_function_wrapper"}

Stores(f) == SelectSeq(f.blocks[1].instrs, LAMBDA ins : ins.op = "store")

Calls(f) == SelectSeq(f.blocks[1].instrs, LAMBDA ins : ins.op = "call")

\* C11: the wrapper of a node type that has no derivative function stores
\* zero, and nothing else, into the dx slot and the dy slot of every
\* dual-carrying output, once each, and into no other slot, whatever the
\* order and mix of dual-carrying and other outputs.
C11_ZeroDerivatives ==
    \A f \in DualWrappers :
        ~f.deriv =>
            LET nt == f.nodetype
                st == Stores(f)
                duals == {i \in 1..num_outputs(nt) : OutputIsDual(nt, i)}
            IN  /\ \A k \in 1..Len(st) : st[k].xs[1] = Zero
                /\ Len(st) = 2 * Cardinality(duals)
                /\ {st[k].xs[2] : k \in 1..Len(st)} =
                       {Arg(OutputSlot(nt, i, 1)) : i \in duals}
                       \cup {Arg(OutputSlot(nt, i, 2)) : i \in duals}

\* The arguments of a call of the derivative function are, each once, the
\* value of every input, slot k of every input that has derivative slots, and
\* slot k of every dual-carrying output (k = 1 for dx, 2 for dy).
DerivativeArguments(nt, xs, k) ==
    LET want == {Arg(InputSlot(nt, i, 0)) : i \in 1..num_inputs(nt)}
                \cup {Arg(InputSlot(nt, i, k)) :
                         i \in {j \in 1..num_inputs(nt) : InputIsDual(nt, j)}}
                \cup {Arg(OutputSlot(nt, i, k)) :
                         i \in {j \in 1..num_outputs(nt) : OutputIsDual(nt, j)}}
    IN  /\ {xs[j] : j \in 1..Len(xs)} = want
        /\ Len(xs) = Cardinality(want)

\* C12: every dual wrapper calls the value function exactly once, as its
\* first instruction; a wrapper of a node type with a derivative function
\* then calls that function exactly twice, first with the inputs' values and
\* dx and the outputs' dx slots, then with the inputs' values and dy and the
\* outputs' dy slots; a wrapper of a node type without one calls nothing else.
C12_WrapperCalls ==
    \A f \in DualWrappers :
        LET nt == f.nodetype
            c  == Calls(f)
            value_name == bvm_value_function_name(f.name[2])
            deriv_name == bvm_deriv_function_name(f.name[2])
        IN  /\ f.blocks[1].instrs[1] = c[1]
            /\ c[1].fn = value_name
            /\ \A k \in 2..Len(c) : c[k].fn # value_name
            /\ f.deriv <=> llvm_find_external_function(mod, deriv_name) # {}
            /\ IF f.deriv
               THEN /\ Len(c) = 3
                    /\ c[2].fn = deriv_name /\ DerivativeArguments(nt, c[2].xs, 1)
                    /\ c[3].fn = deriv_name /\ DerivativeArguments(nt, c[3].xs, 2)
               ELSE Len(c) = 1

\* The module has the wrapper of a node type with a derivative function, a
\* dual-carrying input and two outputs of which the second is dual-carrying.
C12_Witness ==
    \E f \in DualWrappers :
        /\ f.deriv
        /\ num_inputs(f.nodetype) = 1 /\ InputIsDual(f.nodetype, 1)
        /\ num_outputs(f.nodetype) = 2
        /\ ~OutputIsDual(f.nodetype, 1) /\ OutputIsDual(f.nodetype, 2)
        /\ Len(Calls(f)) = 3

\* The stores a call made into its output value (the cell of out_val).
OutValStores(c) == SelectSeq(c.stores, LAMBDA st : st[1] = 1)

\* C13: a call of the extract-derivative function that has returned wrote the
\* upstream dx into its output value if the index was 0, the upstream dy if
\* it was 1, and nothing into its output value for any other index; it ran
\* entry, then exactly one of var0, var1 or neither, then end, and returned
\* normally.
C13_GetDerivative ==
    (call # <<>> /\ call[1].block = "") =>
        LET c     == call[1]
            var   == c.argv[4]
            in_dx == c.mem[6]
            in_dy == c.mem[7]
        IN  /\ ~c.ub
            /\ CASE var = Val(0) -> /\ OutValStores(c) = <<<<1, in_dx>>>>
                                    /\ c.path = <<"entry", "var0", "end">>
                 [] var = Val(1) -> /\ OutValStores(c) = <<<<1, in_dy>>>>
                                    /\ c.path = <<"entry", "var1", "end">>
                 [] OTHER        -> /\ OutValStores(c) = <<>>
                                    /\ c.path = <<"entry", "end">>

\* A call with index 1 has returned, for a TypeSpec passed by reference and
\* derivatives that differ: the output value holds the upstream dy.
C13_Witness ==
    /\ call # <<>>
    /\ call[1].block = ""
    /\ call[1].argv[4] = Val(1)
    /\ call[1].argv[7] = Ptr(7)
    /\ call[1].mem[6] # call[1].mem[7]
    /\ call[1].mem[1] = call[1].mem[7]

\* The functions a Function of the module calls.
Callees(f) ==
    UNION {{f.blocks[b].instrs[k].fn :
               k \in {j \in 1..Len(f.blocks[b].instrs) :
                         f.blocks[b].instrs[j].op = "call"}} :
           b \in 1..Len(f.blocks)}

\* C14: a node type with an input or output TypeSpec without native
\* representation stops nothing but its own function: while its functions are
\* defined no assertion fails and the process does not abort (so that
\* define_nodes_module goes on to the next node type), and no Function of the
\* module calls a function the module does not have.
C14_TypeErrorAbandonsOnly ==
    /\ (at = "abort" => ~TypeError(nodetype[1]))
    /\ \A f \in mod : \A name \in Callees(f) :
           llvm_find_external_function(mod, name) # {}


\* C22: in the wrapper of a node type that has a derivative function, each
\* of the two calls of that function passes exactly as many arguments as the
\* function was declared with.
C22_DerivativeArgumentCount ==
    \A f \in DualWrappers :
        f.deriv =>
            \A d \in llvm_find_external_function(
                         mod, bvm_deriv_function_name(f.name[2])) :
                \A k \in 2..Len(Calls(f)) : Len(Calls(f)[k].xs) = d.nargs

\* ============================================================================
\* LLVMTextureCompiler: the values of the node outputs while a graph is
\* lowered (llvm_compiler_dual.cc, lines 53 to 168).
\* ============================================================================

\* ---- bounds ----------------------------------------------------------------
MaxNodes  == 2       \* node instances of a graph
MaxArgs   == 1       \* arguments of the function a graph becomes
MaxGraphs == 2       \* graphs lowered one after the other

\* ---- ConstOutputKey, DualValue ------------------------------------------------
\* An output of a node instance: the node and the socket; the model's nodes
\* have one output socket per TypeSpec with a native type.
OutputKeys == [node : 1..MaxNodes,
               socket : [typespec : {ts \in SocketSpecs : ts.native}]]

NullValue == <<"", 0, 0>>

\* What a call through a NULL pointer can do.
NullOutcomes == {"crash", "continue"}

\* The TypeSpecs of the inputs a value is appended for.
InputSpecs == {ts \in TypeSpecs : ts.native /\ ~(ts.aggregate /\ ts.structure)}

\* The k-th builder.CreateAlloca(type) of alloc_node_value for an output.
CreateAlloca(output, k) == <<"alloca", output, k>>

CreateStructGEP(arg, k) == <<"gep", arg, k>>

Argument(arg) == <<"arg", arg, 0>>

DualValue(value, dx, dy) == [value |-> value, dx |-> dx, dy |-> dy]

\* OutputValueMap::find, insert and operator[]
OutputValueFind(m, output) == {it \in m : it[1] = output}

OutputValueInsert(m, output, value) ==
    IF OutputValueFind(m, output) = {} THEN m \cup {<<output, value>>} ELSE m

OutputValueAssign(m, output, value) ==
    {it \in m : it[1] # output} \cup {<<output, value>>}

has_node_value(output) == OutputValueFind(m_output_values, output) # {}

\* ---- the functions ---------------------------------------------------------
\* node_graph_begin(): the body is empty.
node_graph_begin ==
    /\ lower_at = "idle"
    /\ fault = "none"
    /\ Len(graphs) < MaxGraphs
    /\ lower_at' = "graph"
    /\ UNCHANGED <<m_output_values, graphs, build, fault>>
    /\ UNCHANGED <<arg_values, args_of>>
    /\ UNCHANGED outsideLower

\* node_graph_end that leaves the map as it is.
node_graph_end_keep ==
    /\ lower_at = "graph"
    /\ lower_at' = "idle"
    /\ graphs' = Append(graphs, Cardinality(m_output_values))
    /\ UNCHANGED <<m_output_values, build, fault>>
    /\ UNCHANGED <<arg_values, args_of>>
    /\ UNCHANGED outsideLower

\* node_graph_end(): m_output_values.clear();
node_graph_end ==
    /\ lower_at = "graph"
    /\ m_output_values' = {}
    /\ lower_at' = "idle"
    /\ graphs' = Append(graphs, Cardinality(m_output_values))
    /\ UNCHANGED <<build, fault>>
    /\ UNCHANGED <<arg_values, args_of>>
    /\ UNCHANGED outsideLower

\* alloc_node_value(block, output): three allocas of the output's type,
\* inserted as the value of the output. An output that has a value already
\* keeps it; the debug build stops at the BLI_assert.
alloc_node_value(output) ==
    /\ lower_at = "graph"
    /\ LET typespec == output.socket.typespec
           type  == bvm_get_llvm_type(typespec)
           value == DualValue(CreateAlloca(output, 0),
                              CreateAlloca(output, 1),
                              CreateAlloca(output, 2))
           ok    == ~has_node_value(output)
       IN  IF ~ok /\ build = "debug"
           THEN /\ fault' = "BLI_assert(ok)"
                /\ lower_at' = "abort"
                /\ UNCHANGED m_output_values
           ELSE /\ m_output_values' = OutputValueInsert(m_output_values, output, value)
                /\ UNCHANGED <<lower_at, fault>>
    /\ UNCHANGED <<graphs, build>>
    /\ UNCHANGED <<arg_values, args_of>>
    /\ UNCHANGED outsideLower

\* map_argument(block, output, arg)
map_argument(output, arg) ==
    /\ lower_at = "graph"
    /\ LET typespec == output.socket.typespec
       IN  IF bvm_type_has_dual_value(typespec)
           THEN m_output_values' = OutputValueAssign(m_output_values, output,
                    DualValue(CreateStructGEP(arg, 0),
                              CreateStructGEP(arg, 1),
                              CreateStructGEP(arg, 2)))
           ELSE m_output_values' = OutputValueAssign(m_output_values, output,
                    DualValue(Argument(arg), NullValue, NullValue))
    /\ UNCHANGED <<lower_at, graphs, build, fault>>
    /\ UNCHANGED <<arg_values, args_of>>
    /\ UNCHANGED outsideLower

\* append_output_arguments(args, output): the three slots of the output's
\* value, pushed as they are. m_output_values.at throws for an output
\* without a value.
append_output_arguments(output) ==
    /\ lower_at = "graph"
    /\ IF ~has_node_value(output)
       THEN /\ fault' = "std::out_of_range"
            /\ lower_at' = "abort"
            /\ UNCHANGED <<arg_values, args_of>>
       ELSE \E it \in OutputValueFind(m_output_values, output) :
                LET val == it[2]
                IN  /\ arg_values' = <<val.value, val.dx, val.dy>>
                    /\ args_of' = [kind |-> "output",
                                   typespec |-> output.socket.typespec]
                    /\ UNCHANGED <<lower_at, fault>>
    /\ UNCHANGED <<m_output_values, graphs, build>>
    /\ UNCHANGED outsideLower

\* append_input_value(block, args, typespec, link): the three slots of the
\* linked output's value, as pointers or loaded. builder.CreateLoad of a NULL
\* slot is undefined.
append_input_value(typespec, link) ==
    /\ lower_at = "graph"
    /\ IF ~has_node_value(link)
       THEN /\ fault' = "std::out_of_range"
            /\ lower_at' = "abort"
            /\ UNCHANGED <<arg_values, args_of>>
       ELSE \E it \in OutputValueFind(m_output_values, link), ub \in NullOutcomes :
                LET ptr == it[2]
                    by_pointer == use_argument_pointer(typespec, FALSE)
                    null_load == ~by_pointer /\ NullValue \in {ptr.value, ptr.dx, ptr.dy}
                IN  IF null_load /\ ub = "crash"
                    THEN /\ fault' = "CreateLoad(NULL)"
                         /\ lower_at' = "abort"
                         /\ UNCHANGED <<arg_values, args_of>>
                    ELSE /\ arg_values' = IF by_pointer
                                    THEN <<ptr.value, ptr.dx, ptr.dy>>
                                    ELSE <<CreateLoad(ptr.value),
                                           CreateLoad(ptr.dx),
                                           CreateLoad(ptr.dy)>>
                         /\ args_of' = [kind |-> "input", typespec |-> typespec]
                         /\ UNCHANGED <<lower_at, fault>>
    /\ UNCHANGED <<m_output_values, graphs, build>>
    /\ UNCHANGED outsideLower

\* ---- the system -----------------------------------------------------------
NextLower ==
    \/ node_graph_begin
    \/ \E output \in OutputKeys : alloc_node_value(output)
    \/ \E output \in OutputKeys, arg \in 1..MaxArgs : map_argument(output, arg)
    \/ \E output \in OutputKeys : append_output_arguments(output)
    \/ \E typespec \in InputSpecs, link \in OutputKeys : append_input_value(typespec, link)
    \/ node_graph_end

InitLower ==
    /\ lowerAtRest
    /\ cacheAtRest
    /\ mathAtRest
    /\ graphAtRest
    /\ argsAtRest
    /\ keysAtRest
    /\ sculptAtRest
    /\ mod = {}
    /\ m_nodes_module = <<>>
    /\ op_it = 0
    /\ at = "none"
    /\ nodetype = <<>>
    /\ build \in {"debug", "release"}
    /\ fault = "none"
    /\ call = <<>>

SpecLower == InitLower /\ [][NextLower]_vars

\* ---- properties of the graph lowering ------------------------------------------
\* The slots of a DualValue: those of value, dx and dy that are not NULL.
Slots(v) == {k \in {"value", "dx", "dy"} : v[k] # NullValue}

\* C15: the storage of every node output that has a value has three slots
\* (value, dx, dy) if the TypeSpec of the output is dual-carrying and exactly
\* one slot otherwise.
C15_SlotsOfOutput ==
    \A it \in m_output_values :
        Cardinality(Slots(it[2])) =
            IF it[1].socket.typespec.dual THEN 3 ELSE 1

\* C18: between two graphs the map from output sockets to DualValues is
\* empty, so that a compilation starts with no output value defined: no
\* output has a value when node_graph_begin is called, however many graphs
\* were lowered before and whatever values they defined.
C18_NoStateCarriedOver ==
    lower_at = "idle" =>
        /\ m_output_values = {}
        /\ \A output \in OutputKeys : ~has_node_value(output)

\* Two graphs have been lowered, each with values defined, and the second has
\* ended.
C18_Witness ==
    /\ lower_at = "idle"
    /\ Len(graphs) = 2
    /\ graphs[1] > 1
    /\ graphs[2] > 0
    /\ m_output_values = {}

\* C23: for every output and every linked input of a node instance, the
\* number of call arguments the lowering appends is the number of parameters
\* the wrapper declares for that socket (three for a dual-carrying socket
\* that is not a constant input, one otherwise), and no appended argument is
\* a NULL slot.
C23_ArgumentsMatchParameters ==
    args_of # <<>> =>
        /\ Len(arg_values) =
               IF args_of.kind = "output"
               THEN append_output_types(args_of.typespec)
               ELSE append_input_types(args_of.typespec, FALSE)
        /\ \A k \in 1..Len(arg_values) : arg_values[k] # NullValue


\* ============================================================================
\* The elementary math operations that guard their inputs
\* (bvm/bvm_eval_math.h).
\* ============================================================================

\* ---- bounds ----------------------------------------------------------------
MaxFloat == 2        \* the inputs are the whole numbers -MaxFloat..MaxFloat

\* ---- float -----------------------------------------------------------------
\* A float is a finite number, an infinity or NaN. Finite numbers are whole
\* numbers here: a result between two of them is rounded toward zero.
F(n) == <<"fin", n>>

Inf == <<"inf", 0>>

NegInf == <<"ninf", 0>>

NaN == <<"nan", 0>>

IsFinite(x) == x[1] = "fin"

\* x >= 0.0f, x != 0.0f (false, true for NaN)
GreaterEqualZero(x) == x = Inf \/ (IsFinite(x) /\ x[2] >= 0)

NotZero(x) == x # F(0)

Sign(x) == CASE x = Inf -> 1
             [] x = NegInf -> 0 - 1
             [] IsFinite(x) /\ x[2] < 0 -> 0 - 1
             [] OTHER -> 1

Abs(n) == IF n < 0 THEN 0 - n ELSE n

\* x / y
FloatDiv(x, y) ==
    CASE x = NaN \/ y = NaN -> NaN
      [] ~IsFinite(x) /\ ~IsFinite(y) -> NaN
      [] ~IsFinite(x) -> IF Sign(x) * Sign(y) > 0 THEN Inf ELSE NegInf
      [] ~IsFinite(y) -> F(0)
      [] y = F(0) -> IF x[2] > 0 THEN Inf ELSE IF x[2] < 0 THEN NegInf ELSE NaN
      [] OTHER -> F(Sign(x) * Sign(y) * (Abs(x[2]) \div Abs(y[2])))

RECURSIVE Log2(_)
Log2(n) == IF n < 2 THEN 0 ELSE 1 + Log2(n \div 2)

\* logf(x), in the base 2: the quotient of two logarithms does not depend on
\* the base.
logf(x) ==
    CASE x = NaN \/ x = NegInf -> NaN
      [] x = Inf -> Inf
      [] x[2] < 0 -> NaN
      [] x[2] = 0 -> NegInf
      [] OTHER -> F(Log2(x[2]))

RECURSIVE Power(_, _)
Power(a, n) == IF n = 0 THEN 1 ELSE a * Power(a, n - 1)

\* powf(a, b) for finite a >= 0 and finite b
powf(a, b) ==
    IF b[2] >= 0 THEN F(Power(a[2], b[2]))
    ELSE IF a[2] = 0 THEN Inf
    ELSE IF a[2] = 1 THEN F(1)
    ELSE F(0)

\* fmodf(a, b) for finite a and finite b != 0
fmodf(a, b) == F(a[2] - b[2] * (Sign(a) * Sign(b) * (Abs(a[2]) \div Abs(b[2]))))

\* div_safe(a, b): a / b, or 0 for b = 0; with the divisors it divided by.
div_safe(a, b) ==
    IF NotZero(b) THEN [r |-> FloatDiv(a, b), div |-> {b}]
    ELSE [r |-> F(0), div |-> {}]

\* ---- the stack -------------------------------------------------------------
\* Where the operands and the result of the operation lie.
offset_a == 0
offset_b == 3
offset_r == 6
StackSize == 9

FloatValues == {F(n) : n \in (0 - MaxFloat)..MaxFloat}

stack_load_float(st, offset) == st[offset]

stack_load_float3(st, offset) == <<st[offset], st[offset + 1], st[offset + 2]>>

stack_store_float(st, offset, f) == [st EXCEPT ![offset] = f]

stack_store_float3(st, offset, f) ==
    [st EXCEPT ![offset] = f[1], ![offset + 1] = f[2], ![offset + 2] = f[3]]

\* The operands are on the stack, the result is not yet.
InitMath ==
    /\ stack \in {[i \in 0..(StackSize - 1) |->
                       IF i < offset_r THEN operands[i] ELSE F(0)] :
                   operands \in [0..(offset_r - 1) -> FloatValues]}
    /\ op_done = "none"
    /\ divisors = {}
    /\ cacheAtRest
    /\ nodesAtRest
    /\ lowerAtRest
    /\ graphAtRest
    /\ argsAtRest
    /\ keysAtRest
    /\ sculptAtRest

\* ---- the operations --------------------------------------------------------
\* The operation op has run: its result is on the stack.
Ran(op, st, div) ==
    /\ op_done' = op
    /\ stack' = st
    /\ divisors' = div
    /\ UNCHANGED outsideMath

eval_op_div_float ==
    LET a == stack_load_float(stack, offset_a)
        b == stack_load_float(stack, offset_b)
        q == div_safe(a, b)
    IN  /\ op_done = "none"
        /\ Ran("DIV_FLOAT", stack_store_float(stack, offset_r, q.r), q.div)

eval_op_power ==
    LET a == stack_load_float(stack, offset_a)
        b == stack_load_float(stack, offset_b)
        r == IF GreaterEqualZero(a) THEN powf(a, b) ELSE F(0)
    IN  /\ op_done = "none"
        /\ Ran("POWER", stack_store_float(stack, offset_r, r), {})

eval_op_logarithm ==
    LET a == stack_load_float(stack, offset_a)
        b == stack_load_float(stack, offset_b)
        guarded == GreaterEqualZero(a) /\ GreaterEqualZero(b)
        r == IF guarded THEN FloatDiv(logf(a), logf(b)) ELSE F(0)
    IN  /\ op_done = "none"
        /\ Ran("LOGARITHM", stack_store_float(stack, offset_r, r),
               IF guarded THEN {logf(b)} ELSE {})

eval_op_modulo ==
    LET a == stack_load_float(stack, offset_a)
        b == stack_load_float(stack, offset_b)
        r == IF NotZero(b) THEN fmodf(a, b) ELSE F(0)
    IN  /\ op_done = "none"
        /\ Ran("MODULO", stack_store_float(stack, offset_r, r), {})

eval_op_div_float3 ==
    LET a == stack_load_float3(stack, offset_a)
        b == stack_load_float3(stack, offset_b)
        x == div_safe(a[1], b[1])
        y == div_safe(a[2], b[2])
        z == div_safe(a[3], b[3])
    IN  /\ op_done = "none"
        /\ Ran("DIV_FLOAT3",
               stack_store_float3(stack, offset_r, <<x.r, y.r, z.r>>),
               x.div \cup y.div \cup z.div)

eval_op_div_float3_float ==
    LET a == stack_load_float3(stack, offset_a)
        b == stack_load_float(stack, offset_b)
        x == div_safe(a[1], b)
        y == div_safe(a[2], b)
        z == div_safe(a[3], b)
    IN  /\ op_done = "none"
        /\ Ran("DIV_FLOAT3_FLOAT",
               stack_store_float3(stack, offset_r, <<x.r, y.r, z.r>>),
               x.div \cup y.div \cup z.div)

\* ---- the system -----------------------------------------------------------
NextMath ==
    \/ eval_op_div_float
    \/ eval_op_power
    \/ eval_op_logarithm
    \/ eval_op_modulo
    \/ eval_op_div_float3
    \/ eval_op_div_float3_float

SpecMath == InitMath /\ [][NextMath]_vars

\* ---- properties of the math operations ----------------------------------------
\* The operands as they were (no operation writes them) and the result.
OperandA == stack_load_float3(stack, offset_a)

OperandB == stack_load_float3(stack, offset_b)

Result == stack_load_float3(stack, offset_r)

\* C16: no operation divides by zero, and the hazardous inputs give 0:
\* DIV_FLOAT and DIV_FLOAT3_FLOAT with divisor 0 (every component), DIV_FLOAT3
\* in the components whose divisor is 0, MODULO with b = 0, POWER with a
\* negative base, LOGARITHM with a negative argument or base, whatever the
\* other operand is.
C16_SafeMath ==
    /\ F(0) \notin divisors
    /\ (op_done = "DIV_FLOAT" /\ OperandB[1] = F(0)) => Result[1] = F(0)
    /\ (op_done = "DIV_FLOAT3") =>
           \A i \in 1..3 : OperandB[i] = F(0) => Result[i] = F(0)
    /\ (op_done = "DIV_FLOAT3_FLOAT" /\ OperandB[1] = F(0)) =>
           Result = <<F(0), F(0), F(0)>>
    /\ (op_done = "MODULO" /\ OperandB[1] = F(0)) => Result[1] = F(0)
    /\ (op_done = "POWER" /\ OperandA[1][2] < 0) => Result[1] = F(0)
    /\ (op_done = "LOGARITHM" /\ (OperandA[1][2] < 0 \/ OperandB[1][2] < 0)) =>
           Result[1] = F(0)

\* ============================================================================
\* The argument-passing policy (llvm/llvm_compiler_dual.cc,
\* use_argument_pointer and use_elementary_argument_pointer)
\* ============================================================================
\* A caller holds the arguments of a function to declare and decides on them
\* one after the other, as the loops over the inputs and outputs of a node
\* type do.
MaxSockets == 2      \* arguments a caller decides on

InitArgs ==
    /\ sockets \in [1..MaxSockets -> TypeSpecs \X BOOLEAN]
    /\ answers = <<>>
    /\ cacheAtRest
    /\ nodesAtRest
    /\ lowerAtRest
    /\ mathAtRest
    /\ graphAtRest
    /\ keysAtRest
    /\ sculptAtRest

\* The argument to decide on next.
NextSocket == sockets[Len(answers) + 1]

answer_use_argument_pointer ==
    /\ Len(answers) < Len(sockets)
    /\ answers' = Append(answers,
                         [fn |-> "use_argument_pointer",
                          pointer |-> use_argument_pointer(NextSocket[1],
                                                           NextSocket[2])])
    /\ UNCHANGED sockets
    /\ UNCHANGED outsideArgs

answer_use_elementary_argument_pointer ==
    /\ Len(answers) < Len(sockets)
    /\ answers' = Append(answers,
                         [fn |-> "use_elementary_argument_pointer",
                          pointer |-> use_elementary_argument_pointer(
                                          NextSocket[1])])
    /\ UNCHANGED sockets
    /\ UNCHANGED outsideArgs

NextArgs ==
    \/ answer_use_argument_pointer
    \/ answer_use_elementary_argument_pointer

SpecArgs == InitArgs /\ [][NextArgs]_vars

\* ---- properties of the argument-passing policy ------------------------------
\* The answers use_argument_pointer gave, with the argument of each.
PointerAnswers ==
    {<<sockets[i][1], sockets[i][2], answers[i].pointer>> :
        i \in {j \in 1..Len(answers) : answers[j].fn = "use_argument_pointer"}}

\* C19: use_argument_pointer(typespec, use_dual) answers by reference exactly
\* when the TypeSpec is an aggregate, or is a structure, or use_dual is set and
\* the TypeSpec carries a dual value; in every other case it answers by value.
C19_ArgumentPointer ==
    \A a \in PointerAnswers :
        a[3] = (a[1].aggregate \/ a[1].structure \/ (a[2] /\ a[1].dual))

\* use_dual decided: a dual scalar went by reference, and one asked without
\* use_dual went by value.
C19_Witness ==
    /\ \E a \in PointerAnswers :
           a[1].dual /\ ~a[1].aggregate /\ ~a[1].structure /\ a[2] /\ a[3]
    /\ \E a \in PointerAnswers :
           a[1].dual /\ ~a[1].aggregate /\ ~a[1].structure /\ ~a[2] /\ ~a[3]

\* ============================================================================
\* The conversion of a texture node tree into a NodeGraph
\* (llvm/llvm_compiler_dual.cc, bNodeCompiler, convert_tex_node and
\* parse_tex_nodes)
\* ============================================================================
MaxBNodes  == 2      \* bNodes of the tree
MaxLinks   == 1      \* bNodeLinks of the tree
MaxMissing == 1      \* NodeType names absent from the registry

\* ---- the registry ------------------------------------------------------------
\* The NodeType names the converters of the modelled bNodes ask for.
NodeTypeNames ==
    {"ADD_FLOAT", "SINE", "TEX_COORD", "GET_ELEM_FLOAT4", "SET_FLOAT4",
     "PASS_FLOAT", "PASS_FLOAT4", "MUL_FLOAT", "MIX_RGB"}

Registries ==
    {NodeTypeNames \ missing :
        missing \in {m \in SUBSET NodeTypeNames : Cardinality(m) <= MaxMissing}}

\* ---- the bNodeTree ------------------------------------------------------------
\* A bNode: its typeinfo->idname, whether nodeIsRegistered, and what its
\* converter reads of it (the Math operation, the flags of the two sockets of
\* a unary Math node, use_alpha of MixRGB).
BNode(idname, operation, linked, use_alpha) ==
    [idname |-> idname, registered |-> TRUE, operation |-> operation,
     linked |-> linked, use_alpha |-> use_alpha]

BNodes ==
    {BNode("TextureNodeMath", 0, <<FALSE, FALSE>>, FALSE)}
    \cup {BNode("TextureNodeMath", 4, <<l0, l1>>, FALSE) : l0, l1 \in BOOLEAN}
    \cup {BNode("TextureNodeCoordinates", 0, <<FALSE, FALSE>>, FALSE)}
    \cup {BNode("TextureNodeDecompose", 0, <<FALSE, FALSE>>, FALSE)}
    \cup {BNode("TextureNodeCompose", 0, <<FALSE, FALSE>>, FALSE)}
    \cup {BNode("TextureNodeMixRGB", 0, <<FALSE, FALSE>>, a) : a \in BOOLEAN}
    \cup {[BNode("TextureNodeMath", 0, <<FALSE, FALSE>>, FALSE)
              EXCEPT !.registered = FALSE]}

\* bNodeSocket::type of the inputs of a bNode, in the order of bnode->inputs.
bnode_inputs(bnode) ==
    CASE bnode.idname = "TextureNodeMath" -> <<"SOCK_FLOAT", "SOCK_FLOAT">>
      [] bnode.idname = "TextureNodeCoordinates" -> <<>>
      [] bnode.idname = "TextureNodeDecompose" -> <<"SOCK_RGBA">>
      [] bnode.idname = "TextureNodeCompose" ->
             <<"SOCK_FLOAT", "SOCK_FLOAT", "SOCK_FLOAT", "SOCK_FLOAT">>
      [] bnode.idname = "TextureNodeMixRGB" ->
             <<"SOCK_FLOAT", "SOCK_RGBA", "SOCK_RGBA">>

\* The number of outputs of a bNode.
bnode_outputs(bnode) ==
    IF bnode.idname = "TextureNodeDecompose" THEN 4 ELSE 1

\* A bNodeLink between two sockets of the tree; flag & NODE_LINK_VALID.
BNodeLinks(nodes) ==
    {[fromnode |-> f, fromsock |-> fs, tonode |-> t, tosock |-> ts,
      valid |-> v] :
        f \in 1..Len(nodes), fs \in 0..1, t \in 1..Len(nodes), ts \in 0..1,
        v \in BOOLEAN}

BNodeTrees ==
    UNION {{[nodes |-> nodes, links |-> links] :
               links \in SeqsUpTo({l \in BNodeLinks(nodes) :
                                      /\ l.fromnode # l.tonode
                                      /\ l.fromsock <
                                             bnode_outputs(nodes[l.fromnode])
                                      /\ l.tosock <
                                             Len(bnode_inputs(nodes[l.tonode]))},
                                  MaxLinks)} :
           nodes \in SeqsUpTo(BNodes, MaxBNodes)}

\* ---- NodeGraph ----------------------------------------------------------------
\* A NodeInstance* is <<>> (NULL) or <<the index of the node in the graph>>.
NoNode == <<>>

SocketPair(node, socket) == <<node, socket>>

EmptyGraph == [nodes |-> <<>>, values |-> {}, links |-> {}]

\* NodeGraph::add_node: the node added, NULL for a name that is not registered.
NodeGraph_add_node(g, type) ==
    IF type \in registry
    THEN [g EXCEPT !.nodes = Append(@, type)]
    ELSE g

\* NodeGraph::add_link: a link with a missing end is rejected; a link to an
\* input replaces the one it had.
NodeGraph_add_link(g, from, to) ==
    IF from[1] = NoNode \/ to[1] = NoNode
    THEN g
    ELSE [g EXCEPT !.links = {l \in @ : l[2] # to} \cup {<<from, to>>}]

\* ---- bNodeCompiler ------------------------------------------------------------
\* The compiler and its graph while a converter runs: c.crash once the
\* process died, c.used the members called on a NULL NodeInstance.
Compiler ==
    [g |-> m_graph, imap |-> m_input_map, omap |-> m_output_map,
     cur |-> m_current_bnode, crash |-> FALSE, used |-> null_used]

\* node->member(...): undefined for a NULL node; the process dies there, or
\* the call goes through and changes nothing that is seen later.
Deref(c, node, member, ub) ==
    IF c.crash \/ node # NoNode
    THEN c
    ELSE [c EXCEPT !.used = @ \cup {member}, !.crash = (ub = "crash")]

\* bNodeCompiler::add_node: the compiler afterwards, and the node returned.
add_node(c, type) ==
    IF c.crash THEN c ELSE [c EXCEPT !.g = NodeGraph_add_node(@, type)]

added_node(c, type) ==
    IF type \in registry THEN <<Len(c.g.nodes) + 1>> ELSE NoNode

\* node->set_input_value(name, value)
set_input_value(c, node, name, ub) ==
    LET d == Deref(c, node, "set_input_value", ub)
    IN  IF d.crash \/ node = NoNode
        THEN d
        ELSE [d EXCEPT !.g.values = @ \cup {<<node, name>>}]

\* node->input(name) and node->output(name): the SocketPair is
\* SocketPair(node, name), the compiler afterwards is node_socket.
node_socket(c, node, member, ub) == Deref(c, node, member, ub)

ValueSockets == {"SOCK_FLOAT", "SOCK_VECTOR", "SOCK_INT", "SOCK_RGBA"}

map_input_socket(c, bindex, socket, ub) ==
    IF c.crash
    THEN c
    ELSE LET binput == bnode_inputs(btree.nodes[c.cur])[bindex + 1]
             c1 == [c EXCEPT !.imap = @ \cup {<<c.cur, bindex, socket>>}]
         IN  IF binput \in ValueSockets
             THEN set_input_value(c1, socket[1], socket[2], ub)
             ELSE c1

map_output_socket(c, bindex, socket) ==
    IF c.crash
    THEN c
    ELSE [c EXCEPT !.omap =
             {e \in @ : ~(e[1] = c.cur /\ e[2] = bindex)}
                 \cup {<<c.cur, bindex, socket>>}]

add_link_intern(c, from, to) ==
    IF c.crash THEN c ELSE [c EXCEPT !.g = NodeGraph_add_link(@, from, to)]

\* The name add_input_proxy asks add_node for.
proxy_type(bsock) ==
    CASE bsock = "SOCK_FLOAT" -> "PASS_FLOAT"
      [] bsock = "SOCK_INT" -> "PASS_INT"
      [] bsock = "SOCK_VECTOR" -> "PASS_FLOAT3"
      [] bsock = "SOCK_RGBA" -> "PASS_FLOAT4"

\* add_input_proxy: the node it adds, the compiler afterwards, and the
\* SocketPair returned.
proxy_node(c, index) ==
    LET bsock == bnode_inputs(btree.nodes[c.cur])[index + 1]
    IN  IF bsock \in ValueSockets THEN added_node(c, proxy_type(bsock))
        ELSE NoNode

add_input_proxy(c, index, ub) ==
    LET bsock == bnode_inputs(btree.nodes[c.cur])[index + 1]
        node == proxy_node(c, index)
        c1 == IF bsock \in ValueSockets THEN add_node(c, proxy_type(bsock))
              ELSE c
        c2 == node_socket(c1, node, "input", ub)
        c3 == map_input_socket(c2, index, SocketPair(node, "value"), ub)
    IN  node_socket(c3, node, "output", ub)

\* node_decompose_v4(v, NULL, NULL, NULL, &w): the compiler afterwards; *w is
\* SocketPair(added_node(c, "GET_ELEM_FLOAT4"), "value_w").
node_decompose_v4(c, v, ub) ==
    LET node == added_node(c, "GET_ELEM_FLOAT4")
        c1 == add_node(c, "GET_ELEM_FLOAT4")
        c2 == node_socket(c1, node, "input", ub)
        c3 == add_link_intern(c2, v, SocketPair(node, "value"))
    IN  node_socket(c3, node, "output", ub)

\* node_math_binary(mode, a, b): the compiler afterwards; the SocketPair
\* returned is SocketPair(added_node(c, mode), "value").
node_math_binary(c, mode, a, b, ub) ==
    LET node == added_node(c, mode)
        c1 == add_node(c, mode)
        c2 == node_socket(c1, node, "input", ub)
        c3 == add_link_intern(c2, a, SocketPair(node, "value_a"))
        c4 == node_socket(c3, node, "input", ub)
        c5 == add_link_intern(c4, b, SocketPair(node, "value_b"))
    IN  node_socket(c5, node, "output", ub)

\* ---- the converters -----------------------------------------------------------
binary_math_node(c, type, ub) ==
    LET node == added_node(c, type)
        c1 == add_node(c, type)
        c2 == map_input_socket(c1, 0, SocketPair(node, "value_a"), ub)
        c3 == map_input_socket(c2, 1, SocketPair(node, "value_b"), ub)
    IN  map_output_socket(c3, 0, SocketPair(node, "value"))

unary_math_node(c, type, ub) ==
    LET node == added_node(c, type)
        c1 == add_node(c, type)
        sock0_linked == btree.nodes[c.cur].linked[1]
        sock1_linked == btree.nodes[c.cur].linked[2]
        c2 == IF sock0_linked \/ ~sock1_linked
              THEN map_input_socket(c1, 0, SocketPair(node, "value"), ub)
              ELSE map_input_socket(c1, 1, SocketPair(node, "value"), ub)
    IN  map_output_socket(c2, 0, SocketPair(node, "value"))

\* One block of the TextureNodeDecompose branch.
decompose_element(c, index, ub) ==
    LET node == added_node(c, "GET_ELEM_FLOAT4")
        c1 == add_node(c, "GET_ELEM_FLOAT4")
        c2 == set_input_value(c1, node, "index", ub)
        c3 == map_input_socket(c2, 0, SocketPair(node, "value"), ub)
    IN  map_output_socket(c3, index, SocketPair(node, "value"))

convert_decompose(c, ub) ==
    decompose_element(
        decompose_element(
            decompose_element(decompose_element(c, 0, ub), 1, ub), 2, ub),
        3, ub)

convert_compose(c, ub) ==
    LET node == added_node(c, "SET_FLOAT4")
        c1 == add_node(c, "SET_FLOAT4")
        c2 == map_input_socket(c1, 0, SocketPair(node, "value_x"), ub)
        c3 == map_input_socket(c2, 1, SocketPair(node, "value_y"), ub)
        c4 == map_input_socket(c3, 2, SocketPair(node, "value_z"), ub)
        c5 == map_input_socket(c4, 3, SocketPair(node, "value_w"), ub)
    IN  map_output_socket(c5, 0, SocketPair(node, "value"))

convert_coordinates(c) ==
    LET node == added_node(c, "TEX_COORD")
    IN  map_output_socket(add_node(c, "TEX_COORD"), 0,
                          SocketPair(node, "value"))

convert_mix_rgb(c, ub) ==
    LET fac0 == SocketPair(proxy_node(c, 0), "value")
        c1 == add_input_proxy(c, 0, ub)
        col_a == SocketPair(proxy_node(c1, 1), "value")
        c2 == add_input_proxy(c1, 1, ub)
        col_b == SocketPair(proxy_node(c2, 2), "value")
        c3 == add_input_proxy(c2, 2, ub)
        use_alpha == btree.nodes[c.cur].use_alpha
        alpha == SocketPair(added_node(c3, "GET_ELEM_FLOAT4"), "value_w")
        c4 == IF use_alpha THEN node_decompose_v4(c3, col_b, ub) ELSE c3
        fac == IF use_alpha
               THEN SocketPair(added_node(c4, "MUL_FLOAT"), "value")
               ELSE fac0
        c5 == IF use_alpha
              THEN node_math_binary(c4, "MUL_FLOAT", fac0, alpha, ub)
              ELSE c4
        node == added_node(c5, "MIX_RGB")
        c6 == add_node(c5, "MIX_RGB")
        c7 == set_input_value(c6, node, "mode", ub)
        c8 == add_link_intern(node_socket(c7, node, "input", ub),
                              fac, SocketPair(node, "factor"))
        c9 == add_link_intern(node_socket(c8, node, "input", ub),
                              col_a, SocketPair(node, "color1"))
        c10 == add_link_intern(node_socket(c9, node, "input", ub),
                               col_b, SocketPair(node, "color2"))
        c11 == node_socket(c10, node, "output", ub)
    IN  map_output_socket(c11, 0, SocketPair(node, "color"))

\* The "operation" of a TextureNodeMath bNode: 0 is ADD_FLOAT, 4 is SINE.
convert_math(c, ub) ==
    LET mode == btree.nodes[c.cur].operation
    IN  CASE mode = 0 -> binary_math_node(c, "ADD_FLOAT", ub)
          [] mode = 4 -> unary_math_node(c, "SINE", ub)

convert_tex_node(c, ub) ==
    LET type == btree.nodes[c.cur].idname
    IN  CASE type = "TextureNodeDecompose" -> convert_decompose(c, ub)
          [] type = "TextureNodeCompose" -> convert_compose(c, ub)
          [] type = "TextureNodeCoordinates" -> convert_coordinates(c)
          [] type = "TextureNodeMixRGB" -> convert_mix_rgb(c, ub)
          [] type = "TextureNodeMath" -> convert_math(c, ub)

\* The loop of bNodeCompiler::add_link over the graph inputs of the target.
RECURSIVE add_links(_, _, _)
add_links(g, from_pair, to_set) ==
    IF to_set = {}
    THEN g
    ELSE LET to_pair == CHOOSE t \in to_set : TRUE
         IN  add_links(NodeGraph_add_link(g, from_pair, to_pair),
                       from_pair, to_set \ {to_pair})

\* bNodeCompiler::add_link
add_link(c, blink) ==
    LET it_from == {e \in c.omap : e[1] = blink.fromnode
                                     /\ e[2] = blink.fromsock}
        it_to_set == {e \in c.imap : e[1] = blink.tonode
                                       /\ e[2] = blink.tosock}
    IN  IF it_from # {} /\ it_to_set # {}
        THEN LET from_pair == (CHOOSE e \in it_from : TRUE)[3]
                 to_set == {e[3] : e \in it_to_set}
             IN  [c EXCEPT !.g = add_links(@, from_pair, to_set)]
        ELSE c   \* printf("Cannot map link ...")

\* ---- parse_tex_nodes ----------------------------------------------------------
InitGraph ==
    /\ btree \in BNodeTrees
    /\ registry \in Registries
    /\ m_graph = EmptyGraph
    /\ m_current_bnode = 0
    /\ m_input_map = {}
    /\ m_output_map = {}
    /\ bnode_it = 1
    /\ blink_it = 1
    /\ crashed = FALSE
    /\ null_used = {}
    /\ cacheAtRest
    /\ nodesAtRest
    /\ lowerAtRest
    /\ mathAtRest
    /\ argsAtRest
    /\ keysAtRest
    /\ sculptAtRest

\* The compiler as a converter left it.
Leave(c) ==
    /\ m_graph' = c.g
    /\ m_input_map' = c.imap
    /\ m_output_map' = c.omap
    /\ m_current_bnode' = c.cur
    /\ crashed' = c.crash
    /\ null_used' = c.used

\* The first loop at a bNode that is not registered: continue.
parse_skip_bnode ==
    /\ ~crashed
    /\ bnode_it <= Len(btree.nodes)
    /\ ~btree.nodes[bnode_it].registered
    /\ bnode_it' = bnode_it + 1
    /\ UNCHANGED <<btree, registry, m_graph, m_current_bnode, m_input_map,
                   m_output_map, blink_it, crashed, null_used>>
    /\ UNCHANGED outsideGraph

\* The first loop at a registered bNode: set_current_node and convert_tex_node.
parse_convert_bnode(ub) ==
    /\ ~crashed
    /\ bnode_it <= Len(btree.nodes)
    /\ btree.nodes[bnode_it].registered
    /\ Leave(convert_tex_node([Compiler EXCEPT !.cur = bnode_it], ub))
    /\ bnode_it' = bnode_it + 1
    /\ UNCHANGED <<btree, registry, blink_it>>
    /\ UNCHANGED outsideGraph

\* The second loop at a link without NODE_LINK_VALID: continue.
parse_skip_link ==
    /\ ~crashed
    /\ bnode_it > Len(btree.nodes)
    /\ blink_it <= Len(btree.links)
    /\ ~btree.links[blink_it].valid
    /\ blink_it' = blink_it + 1
    /\ UNCHANGED <<btree, registry, m_graph, m_current_bnode, m_input_map,
                   m_output_map, bnode_it, crashed, null_used>>
    /\ UNCHANGED outsideGraph

\* The second loop at a valid link: comp.add_link(blink).
parse_add_link ==
    /\ ~crashed
    /\ bnode_it > Len(btree.nodes)
    /\ blink_it <= Len(btree.links)
    /\ btree.links[blink_it].valid
    /\ Leave(add_link(Compiler, btree.links[blink_it]))
    /\ blink_it' = blink_it + 1
    /\ UNCHANGED <<btree, registry, bnode_it>>
    /\ UNCHANGED outsideGraph

NextGraph ==
    \/ parse_skip_bnode
    \/ \E ub \in NullOutcomes : parse_convert_bnode(ub)
    \/ parse_skip_link
    \/ parse_add_link

SpecGraph == InitGraph /\ [][NextGraph]_vars

\* ---- properties of the conversion ---------------------------------------------
\* C17: a NodeType name that is not registered is skipped: the conversion goes
\* on (the process does not die on the missing node) and no helper calls a
\* member of the missing node.
C17_UnregisteredSkipped ==
    /\ ~crashed
    /\ null_used = {}

\* The graph sockets mapped to the two ends of the link the second loop is at.
LinkSources ==
    {e[3] : e \in {x \in m_output_map :
                      /\ x[1] = btree.links[blink_it].fromnode
                      /\ x[2] = btree.links[blink_it].fromsock}}

LinkTargets ==
    {e[3] : e \in {x \in m_input_map :
                      /\ x[1] = btree.links[blink_it].tonode
                      /\ x[2] = btree.links[blink_it].tosock}}

\* C25: bNodeCompiler::add_link adds one graph link from the graph output
\* mapped to the source socket of the link to every graph input mapped to its
\* target socket; when the source or the target socket has no mapping it adds
\* no link and leaves the graph as it is. It adds no node and sets no value.
C25_AddLink ==
    [][(blink_it' = blink_it + 1 /\ btree.links[blink_it].valid) =>
          /\ m_graph'.nodes = m_graph.nodes
          /\ m_graph'.values = m_graph.values
          /\ IF LinkSources # {} /\ LinkTargets # {}
             THEN /\ \A to \in LinkTargets :
                        \E from \in LinkSources : <<from, to>> \in m_graph'.links
                  /\ \A l \in m_graph'.links \ m_graph.links :
                        l[1] \in LinkSources /\ l[2] \in LinkTargets
                  /\ \A l \in m_graph.links \ m_graph'.links :
                        l[2] \in LinkTargets
             ELSE m_graph'.links = m_graph.links]_vars


\* ============================================================================
\* The keyframe editing loops and callbacks (src/unnamed/part_000, lines 1330
\* to 2110).
\* ============================================================================

\* ---- bounds ----------------------------------------------------------------
MaxVerts   == 2      \* BezTriples of an IpoCurve
MaxCurves  == 2      \* IpoCurves of an Ipo
MaxFrame   == 1      \* keyframes and markers begin on the frames 0..MaxFrame
MaxMarkers == 2      \* TimeMarkers of the scene
MaxCycles  == 2      \* mirror cycles of a run

\* ---- BezTriple, IpoCurve, Ipo, TimeMarker --------------------------------------
\* The selection bit of the flags f1, f2, f3 and of TimeMarker.flag.
SELECT == 1

\* A BezTriple: its frame vec[1][0] and the SELECT bit of f1 (left handle),
\* f2 (the key) and f3 (right handle).
BezTriple(frame, f1, f2, f3) ==
    [frame |-> frame, f1 |-> f1, f2 |-> f2, f3 |-> f3]

BezTriples ==
    {BezTriple(frame, f[1], f[2], f[3]) :
        frame \in 0..MaxFrame,
        f \in {<<0, 0, 0>>, <<SELECT, SELECT, SELECT>>, <<SELECT, 0, 0>>}}

\* icu->bezt with icu->totvert its length: the keyframes of a curve are kept
\* in the order of their frames.
IpoCurves ==
    {icu \in SeqsUpTo(BezTriples, MaxVerts) :
        \A i \in 1..(Len(icu) - 1) : icu[i].frame < icu[i + 1].frame}

\* ipo->curve
Ipos == SeqsUpTo(IpoCurves, MaxCurves)

TimeMarkers == [frame : 0..MaxFrame, flag : {0, SELECT}]

MarkerLists == SeqsUpTo(TimeMarkers, MaxMarkers)

\* BeztEditData: the float properties f1 and f2.
BeztEditDatas == [f1 : {0 - 1}, f2 : {1, MaxFrame + 1}]

\* A BeztEditFunc or IcuEditFunc that is NULL.
NoFunc == "NULL"

\* ---- the BeztEditFunc callbacks ------------------------------------------------
\* What a callback leaves of the BezTriple, and the short it returns.
Edited(bezt, ret) == [bezt |-> bezt, ret |-> ret]

\* BEZ_SEL(bezt) and BEZ_DESEL(bezt)
BEZ_SEL(bezt) == [bezt EXCEPT !.f1 = SELECT, !.f2 = SELECT, !.f3 = SELECT]

BEZ_DESEL(bezt) == [bezt EXCEPT !.f1 = 0, !.f2 = 0, !.f3 = 0]

ok_bezier_framerange(bed, bezt) ==
    Edited(bezt, IF (bezt.frame > bed.f1) /\ (bezt.frame < bed.f2) THEN 1 ELSE 0)

select_bezier_add(bed, bezt) == Edited(BEZ_SEL(bezt), 0)

select_bezier_subtract(bed, bezt) == Edited(BEZ_DESEL(bezt), 0)

\* bezt->f2 ^= SELECT, and the handles follow the key.
select_bezier_invert(bed, bezt) ==
    LET f2 == IF bezt.f2 = SELECT THEN 0 ELSE SELECT
    IN  Edited([bezt EXCEPT !.f2 = f2, !.f1 = f2, !.f3 = f2], 0)

\* mirror_bezier_marker(bed, bezt) with a BezTriple: mirroring time.
mirror_bezier_marker(bed, bezt) ==
    IF (bezt.f2 = SELECT) /\ (marker # NULL)
    THEN LET diff == markers[marker].frame - bezt.frame
         IN  Edited([bezt EXCEPT !.frame = markers[marker].frame + diff], 0)
    ELSE Edited(bezt, 0)

\* The first TimeMarker of the list that is selected, NULL if there is none.
first_selected(ms) ==
    IF \E i \in 1..Len(ms) : ms[i].flag = SELECT
    THEN CHOOSE i \in 1..Len(ms) :
             /\ ms[i].flag = SELECT
             /\ \A j \in 1..(i - 1) : ms[j].flag # SELECT
    ELSE NULL

\* mirror_bezier_marker(bed, NULL) that looks for a marker every time.
mirror_bezier_marker_find(ms) ==
    <<first_selected(ms), IF first_selected(ms) # NULL THEN 1 ELSE 0>>

\* mirror_bezier_marker(bed, NULL): initialisation time. The statics marker
\* and initialised afterwards.
mirror_bezier_marker_init(ms) ==
    IF initialised # 0
    THEN <<NULL, 0>>                   \* reset everything for safety
    ELSE <<first_selected(ms), IF first_selected(ms) # NULL THEN 1 ELSE 0>>

\* (*fn)(bed, bezt)
BeztEdit(fn, bed, bezt) ==
    CASE fn = "ok_bezier_framerange"   -> ok_bezier_framerange(bed, bezt)
      [] fn = "select_bezier_add"      -> select_bezier_add(bed, bezt)
      [] fn = "select_bezier_subtract" -> select_bezier_subtract(bed, bezt)
      [] fn = "select_bezier_invert"   -> select_bezier_invert(bed, bezt)
      [] fn = "mirror_bezier_marker"   -> mirror_bezier_marker(bed, bezt)

\* ---- icu_keys_bezier_loop, ipo_keys_bezier_loop -------------------------------
\* A call of a callback: which, on which curve and keyframe, what it returned.
Called(fn, icu, b, ret) == [fn |-> fn, icu |-> icu, b |-> b, ret |-> ret]

\* The loop as it is entered: rets takes what icu_keys_bezier_loop returns
\* for one curve after the other, ret what the entered function returns.
Run(top, icu, bed, bezt_ok, bezt_cb, icu_cb) ==
    [top |-> top, icu |-> icu, b |-> 0, bed |-> bed, bezt_ok |-> bezt_ok,
     bezt_cb |-> bezt_cb, icu_cb |-> icu_cb, rets |-> <<>>, ret |-> 0 - 1]

\* No loop entered yet.
NoRun == [Run("", 0, [f1 |-> 0, f2 |-> 0], NoFunc, NoFunc, NoFunc) EXCEPT !.ret = 0]

\* icu_keys_bezier_loop(bed, icu, bezt_ok, bezt_cb, icu_cb) is entered.
icu_keys_bezier_loop(icu, bed, bezt_ok, bezt_cb, icu_cb) ==
    /\ keys_at = "idle"
    /\ icu \in 1..Len(ipo)
    /\ run' = Run("icu", icu, bed, bezt_ok, bezt_cb, icu_cb)
    /\ key_calls' = <<>>
    /\ keys_at' = "loop"
    /\ UNCHANGED <<ipo, markers, marker, initialised, cycle, cycles, sel>>
    /\ UNCHANGED outsideKeys

\* ipo_keys_bezier_loop(bed, ipo, bezt_ok, bezt_cb, icu_cb) is entered: it
\* returns 0 for no Ipo and for an Ipo without curves.
ipo_keys_bezier_loop(is_null, bed, bezt_ok, bezt_cb, icu_cb) ==
    /\ keys_at = "idle"
    /\ IF is_null \/ ipo = <<>>
       THEN /\ run' = [Run("ipo", 0, bed, bezt_ok, bezt_cb, icu_cb) EXCEPT !.ret = 0]
            /\ keys_at' = "idle"
       ELSE /\ run' = Run("ipo", 1, bed, bezt_ok, bezt_cb, icu_cb)
            /\ keys_at' = "loop"
    /\ key_calls' = <<>>
    /\ UNCHANGED <<ipo, markers, marker, initialised, cycle, cycles, sel>>
    /\ UNCHANGED outsideKeys

\* One pass of the for loop of icu_keys_bezier_loop, of the one with bezt_ok
\* or of the one without: the BezTriple at b, and return 1 if bezt_cb
\* returns positive.
icu_loop_bezt ==
    /\ keys_at = "loop"
    /\ run.bezt_cb # NoFunc
    /\ run.b < Len(ipo[run.icu])
    /\ LET bezt == ipo[run.icu][run.b + 1]
           ok   == IF run.bezt_ok # NoFunc
                   THEN BeztEdit(run.bezt_ok, run.bed, bezt)
                   ELSE Edited(bezt, 1)
           oks  == IF run.bezt_ok # NoFunc
                   THEN <<Called("bezt_ok", run.icu, run.b, ok.ret)>>
                   ELSE <<>>
           cb   == BeztEdit(run.bezt_cb, run.bed, ok.bezt)
       IN  IF ok.ret = 0
           THEN /\ ipo' = [ipo EXCEPT ![run.icu][run.b + 1] = ok.bezt]
                /\ key_calls' = key_calls \o oks
                /\ run' = [run EXCEPT !.b = @ + 1]
                /\ UNCHANGED keys_at
           ELSE /\ ipo' = [ipo EXCEPT ![run.icu][run.b + 1] = cb.bezt]
                /\ key_calls' = key_calls \o oks \o
                                    <<Called("bezt_cb", run.icu, run.b, cb.ret)>>
                /\ IF cb.ret # 0
                   THEN /\ run' = [run EXCEPT !.rets = Append(@, 1), !.ret = 1]
                        /\ keys_at' = "idle"
                   ELSE /\ run' = [run EXCEPT !.b = @ + 1]
                        /\ UNCHANGED keys_at
    /\ UNCHANGED <<markers, marker, initialised, cycle, cycles, sel>>
    /\ UNCHANGED outsideKeys

\* icu_cb(icu) called twice.
call_icu_cb_twice(calls, r) ==
    IF r.icu_cb # NoFunc
    THEN calls \o <<Called("icu_cb", r.icu, r.b, 0), Called("icu_cb", r.icu, r.b, 0)>>
    ELSE calls

\* if (icu_cb) icu_cb(icu);
call_icu_cb(calls, r) ==
    IF r.icu_cb # NoFunc
    THEN Append(calls, Called("icu_cb", r.icu, r.b, 0))
    ELSE calls

\* After the loops of icu_keys_bezier_loop: icu_cb, return 0; and
\* ipo_keys_bezier_loop goes on to the next curve, or returns 0 after the
\* last.
icu_loop_end ==
    /\ keys_at = "loop"
    /\ (run.bezt_cb = NoFunc) \/ (run.b = Len(ipo[run.icu]))
    /\ key_calls' = call_icu_cb(key_calls, run)
    /\ IF (run.top = "ipo") /\ (run.icu < Len(ipo))
       THEN /\ run' = [run EXCEPT !.icu = @ + 1, !.b = 0, !.rets = Append(@, 0)]
            /\ UNCHANGED keys_at
       ELSE /\ run' = [run EXCEPT !.rets = Append(@, 0), !.ret = 0]
            /\ keys_at' = "idle"
    /\ UNCHANGED <<ipo, markers, marker, initialised, cycle, cycles, sel>>
    /\ UNCHANGED outsideKeys

\* No select_icu_key or select_ipo_key called yet.
NoSel == [fn |-> "", null |-> FALSE, icu |-> 0, selx |-> 0, selectmode |-> "",
          before |-> <<>>]

\* ---- the system of the loops ---------------------------------------------------
InitKeys ==
    /\ ipo \in Ipos
    /\ markers = <<>>
    /\ marker = NULL
    /\ initialised = 0
    /\ cycle = "closed"
    /\ cycles = 0
    /\ keys_at = "idle"
    /\ run = NoRun
    /\ key_calls = <<>>
    /\ sel = NoSel
    /\ cacheAtRest
    /\ nodesAtRest
    /\ lowerAtRest
    /\ mathAtRest
    /\ graphAtRest
    /\ argsAtRest
    /\ sculptAtRest

ValidateFuncs == {NoFunc, "ok_bezier_framerange"}

EditFuncs == {NoFunc, "select_bezier_invert", "ok_bezier_framerange"}

IcuEditFuncs == {NoFunc, "calchandles_ipocurve"}

NextLoop ==
    \/ \E icu \in 1..MaxCurves, bed \in BeztEditDatas, bezt_ok \in ValidateFuncs,
          bezt_cb \in EditFuncs, icu_cb \in IcuEditFuncs :
           icu_keys_bezier_loop(icu, bed, bezt_ok, bezt_cb, icu_cb)
    \/ \E is_null \in BOOLEAN, bed \in BeztEditDatas, bezt_ok \in ValidateFuncs,
          bezt_cb \in EditFuncs, icu_cb \in IcuEditFuncs :
           ipo_keys_bezier_loop(is_null, bed, bezt_ok, bezt_cb, icu_cb)
    \/ icu_loop_bezt
    \/ icu_loop_end

SpecLoop == InitKeys /\ [][NextLoop]_vars

\* ---- properties of the loops ----------------------------------------------------
\* The curve of the j-th return of icu_keys_bezier_loop in the last loop, and
\* the callbacks that were called on a curve.
RunCurve(j) == IF run.top = "icu" THEN run.icu ELSE j

CallsOn(c) ==
    LET OnCurve(e) == e.icu = c
    IN  SelectSeq(key_calls, OnCurve)

\* What icu_keys_bezier_loop did on the curve of its j-th return, with
\* icu_cbs the number of calls of icu_cb when no callback stopped the loop.
CurveLooped(j, icu_cbs) ==
    LET c       == RunCurve(j)
        q       == CallsOn(c)
        totvert == Len(ipo[c])
        Cbs     == {i \in 1..Len(q) : q[i].fn = "bezt_cb"}
        Oks     == {i \in 1..Len(q) : q[i].fn = "bezt_ok"}
        Icus    == {i \in 1..Len(q) : q[i].fn = "icu_cb"}
        stopped == \E i \in Cbs : q[i].ret # 0
        last    == IF stopped THEN q[Len(q)].b ELSE totvert - 1
        InRange(b) == /\ ipo[c][b + 1].frame > run.bed.f1
                      /\ ipo[c][b + 1].frame < run.bed.f2
    IN  \* in index order, each keyframe at most once, none after the last
        /\ \A i, k \in Cbs : i < k => q[i].b < q[k].b
        /\ \A i \in Cbs \cup Oks : q[i].b \in 0..last
        /\ run.bezt_cb = NoFunc => Cbs \cup Oks = {}
        \* every keyframe up to the last, but only those that pass bezt_ok
        /\ IF run.bezt_ok = NoFunc
           THEN /\ Oks = {}
                /\ run.bezt_cb # NoFunc =>
                       \A b \in 0..last : \E i \in Cbs : q[i].b = b
           ELSE /\ \A i \in Oks : (q[i].ret # 0) <=> InRange(q[i].b)
                /\ \A i \in Cbs : /\ i > 1
                                   /\ q[i - 1].fn = "bezt_ok"
                                   /\ q[i - 1].b = q[i].b
                                   /\ q[i - 1].ret # 0
                /\ \A i \in Oks : q[i].ret # 0 =>
                                       /\ i < Len(q)
                                       /\ q[i + 1].fn = "bezt_cb"
                                       /\ q[i + 1].b = q[i].b
                /\ run.bezt_cb # NoFunc =>
                       \A b \in 0..last : \E i \in Oks : q[i].b = b
        \* 1 at the first callback that returns non-zero, and no icu_cb then
        /\ run.rets[j] = (IF stopped THEN 1 ELSE 0)
        /\ stopped => /\ \A i \in Cbs : q[i].ret # 0 => i = Len(q)
                      /\ Icus = {}
        \* otherwise icu_cb after the last keyframe
        /\ ~stopped => /\ Cardinality(Icus) = icu_cbs
                       /\ \A i \in Icus : i = Len(q)

\* C26 as it is stated: icu_keys_bezier_loop applies bezt_cb to the keyframes
\* of the curve in index order, only to those that pass bezt_ok when one is
\* given; it returns 1 at the first keyframe whose callback returns non-zero,
\* visiting no later keyframe and not calling icu_cb; otherwise it calls
\* icu_cb exactly once after the last keyframe and returns 0.
C26_IcuCbCalledOnce ==
    \A j \in 1..Len(run.rets) : CurveLooped(j, 1)

\* C26, amended: as above, but when no callback stops the loop icu_cb is
\* called exactly once after the last keyframe if an icu_cb is given, and
\* nothing is called after the last keyframe if icu_cb is NULL; 0 is
\* returned in both cases.
C26_IcuCbCalledWhenGiven ==
    \A j \in 1..Len(run.rets) :
        CurveLooped(j, IF run.icu_cb # NoFunc THEN 1 ELSE 0)

\* ipo_keys_bezier_loop has returned 1 from its second curve: on the first
\* curve no keyframe passed bezt_ok and icu_cb was called, on the second the
\* callback stopped the loop at the first of two keyframes.
C26_Witness ==
    /\ keys_at = "idle"
    /\ run.top = "ipo"
    /\ run.rets = <<0, 1>>
    /\ run.icu_cb # NoFunc
    /\ Len(ipo[1]) > 0
    /\ Len(ipo[2]) = 2
    /\ \A i \in 1..Len(CallsOn(1)) :
           CallsOn(1)[i].fn = "bezt_ok" => CallsOn(1)[i].ret = 0
    /\ CallsOn(1)[Len(CallsOn(1))].fn = "icu_cb"
    /\ CallsOn(2)[Len(CallsOn(2))] = Called("bezt_cb", 2, 0, 1)

\* ---- mirror_bezier_marker and its static state ---------------------------------
\* mirror_bezier_marker(bed, NULL) with scene the markers of bed->scene: the
\* caller opens a cycle with it, or closes the cycle it has opened.
mirror_bezier_marker_null(scene) ==
    /\ keys_at = "idle"
    /\ IF cycle = "closed"
       THEN /\ cycles < MaxCycles
            /\ cycles' = cycles + 1
            /\ cycle' = "open"
            /\ markers' = scene
       ELSE /\ scene = markers
            /\ cycle' = "closed"
            /\ UNCHANGED <<cycles, markers>>
    /\ marker' = mirror_bezier_marker_init(scene)[1]
    /\ initialised' = mirror_bezier_marker_init(scene)[2]
    /\ UNCHANGED <<ipo, keys_at, run, key_calls, sel>>
    /\ UNCHANGED outsideKeys

\* The callback ANIM_editkeyframes_mirror(4) returns, run over the Ipo.
NextMirror ==
    \/ \E scene \in MarkerLists : mirror_bezier_marker_null(scene)
    \/ \E bed \in {d \in BeztEditDatas : d.f2 = 1} :
           ipo_keys_bezier_loop(FALSE, bed, NoFunc, "mirror_bezier_marker", NoFunc)
    \/ icu_loop_bezt
    \/ icu_loop_end

SpecMirror == InitKeys /\ [][NextMirror]_vars

\* C27: the static state of mirror_bezier_marker is reset after each cycle.
\* The call with bezt == NULL that opens a cycle finds the state (no marker,
\* not initialised) and picks the first selected marker of the list, or none;
\* a call with a keyframe mirrors the keyframe over that marker if the
\* keyframe is selected and a marker was picked (its frame becomes
\* 2*marker - frame) and changes nothing otherwise; the call with
\* bezt == NULL that closes the cycle leaves (no marker, not initialised)
\* again, whatever the marker list is.
C27_MirrorCycle ==
    /\ [](cycle = "closed" => (marker = NULL /\ initialised = 0))
    /\ [][/\ (cycle = "closed" /\ cycle' = "open") =>
                 IF \E i \in 1..Len(markers') : markers'[i].flag = SELECT
                 THEN /\ marker' \in 1..Len(markers')
                      /\ markers'[marker'].flag = SELECT
                      /\ \A j \in 1..(marker' - 1) : markers'[j].flag # SELECT
                      /\ initialised' = 1
                 ELSE /\ marker' = NULL
                      /\ initialised' = 0
          /\ (cycle = "open" /\ cycle' = "closed") =>
                 (marker' = NULL /\ initialised' = 0)
          /\ \A c \in 1..Len(ipo) : \A b \in 1..Len(ipo[c]) :
                 ipo'[c][b] =
                     IF /\ key_calls' = Append(key_calls, Called("bezt_cb", c, b - 1, 0))
                        /\ ipo[c][b].f2 = SELECT
                        /\ marker # NULL
                     THEN [ipo[c][b] EXCEPT !.frame = 2 * markers[marker].frame - @]
                     ELSE ipo[c][b]]_vars

\* The second cycle is closed; a keyframe was mirrored off the frames
\* 0..MaxFrame, and an unselected keyframe is where it was.
C27_Witness ==
    /\ cycle = "closed"
    /\ cycles = 2
    /\ marker = NULL
    /\ initialised = 0
    /\ \E c \in 1..Len(ipo) : \E b \in 1..Len(ipo[c]) :
           ipo[c][b].f2 = SELECT /\ ipo[c][b].frame \notin 0..MaxFrame
    /\ \E c \in 1..Len(ipo) : \E b \in 1..Len(ipo[c]) : ipo[c][b].f2 = 0

\* ---- select_icu_key, select_ipo_key ----------------------------------------------
\* The selection modes.
SelectModes == {"SELECT_REPLACE", "SELECT_ADD", "SELECT_SUBTRACT", "SELECT_INVERT"}

\* A BeztEditData of which the selection callbacks read nothing.
NoBed == [f1 |-> 0, f2 |-> 0]

\* ANIM_editkeyframes_select(selectmode)
ANIM_editkeyframes_select(selectmode) ==
    CASE selectmode = "SELECT_ADD"      -> "select_bezier_add"
      [] selectmode = "SELECT_SUBTRACT" -> "select_bezier_subtract"
      [] selectmode = "SELECT_INVERT"   -> "select_bezier_invert"
      [] OTHER                          -> "select_bezier_add"

\* The switch of select_icu_key: no callback for another mode.
select_icu_key_cb(selectmode) ==
    CASE selectmode = "SELECT_ADD"      -> "select_bezier_add"
      [] selectmode = "SELECT_SUBTRACT" -> "select_bezier_subtract"
      [] selectmode = "SELECT_INVERT"   -> "select_bezier_invert"
      [] OTHER                          -> NoFunc

\* for (i=0, bezt=icu->bezt; i<icu->totvert; i++, bezt++)
\*     if (bezt->vec[1][0] == selx) select_cb(bed, bezt);
select_keys(icu, selx, select_cb) ==
    [i \in 1..Len(icu) |->
        IF icu[i].frame = selx
        THEN BeztEdit(select_cb, NoBed, icu[i]).bezt
        ELSE icu[i]]

\* What select_icu_key(bed, icu, selx, selectmode) leaves of the curve.
select_icu_key_curve(icu, selx, selectmode) ==
    LET select_cb == select_icu_key_cb(selectmode)
    IN  IF select_cb = NoFunc THEN icu ELSE select_keys(icu, selx, select_cb)

\* select_icu_key(bed, icu, selx, selectmode)
select_icu_key(is_null, icu, selx, selectmode) ==
    /\ keys_at = "idle"
    /\ icu \in 1..Len(ipo)
    /\ ipo' = IF is_null
              THEN ipo
              ELSE [ipo EXCEPT ![icu] = select_icu_key_curve(@, selx, selectmode)]
    /\ sel' = [fn |-> "select_icu_key", null |-> is_null, icu |-> icu,
               selx |-> selx, selectmode |-> selectmode, before |-> ipo]
    /\ UNCHANGED <<markers, marker, initialised, cycle, cycles, keys_at, run, key_calls>>
    /\ UNCHANGED outsideKeys

\* select_ipo_key(bed, ipo, selx, selectmode)
select_ipo_key(is_null, selx, selectmode) ==
    /\ keys_at = "idle"
    /\ LET select_cb == ANIM_editkeyframes_select(selectmode)
       IN  ipo' = IF is_null \/ select_cb = NoFunc
                  THEN ipo
                  ELSE [c \in 1..Len(ipo) |-> select_keys(ipo[c], selx, select_cb)]
    /\ sel' = [fn |-> "select_ipo_key", null |-> is_null, icu |-> 0,
               selx |-> selx, selectmode |-> selectmode, before |-> ipo]
    /\ UNCHANGED <<markers, marker, initialised, cycle, cycles, keys_at, run, key_calls>>
    /\ UNCHANGED outsideKeys

NextSelect ==
    \/ \E is_null \in BOOLEAN, icu \in 1..MaxCurves, selx \in 0..MaxFrame,
          selectmode \in SelectModes :
           select_icu_key(is_null, icu, selx, selectmode)
    \/ \E is_null \in BOOLEAN, selx \in 0..MaxFrame, selectmode \in SelectModes :
           select_ipo_key(is_null, selx, selectmode)

SpecSelect == InitKeys /\ [][NextSelect]_vars

\* C30: for every selection mode, select_ipo_key(ipo, selx, mode) changes the
\* keyframes of an Ipo exactly as select_icu_key(curve, selx, mode) applied
\* to each of its curves does.
C30_SelectIpoAsSelectIcu ==
    (sel.fn = "select_ipo_key" /\ ~sel.null) =>
        ipo = [c \in 1..Len(sel.before) |->
                  select_icu_key_curve(sel.before[c], sel.selx, sel.selectmode)]

\* =============================================================================
\* Pose sculpting: the paint operator of src/unnamed/part_000
\* =============================================================================
NumBones     == 2      \* pose channels of the armature
MaxEvents    == 1      \* events psculpt_brush_modal handles in a stroke
MaxMouse     == 121    \* the mouse is at 0 or at MaxMouse along x
MaxBrushSize == 100    \* brush->size

FloatBits == 24        \* bits of the significand of a float

\* ---- float arithmetic -------------------------------------------------------
\* A float is <<m, e>>, the number m * 2^e, with m odd, or <<0, 0>>; every
\* operation gives the float nearest to its exact result, ties to the even
\* significand (the expressions are evaluated in float, FLT_EVAL_METHOD 0).
\* The numbers of the operator stay far from the ends of the exponent range.
RECURSIVE Pow2(_)
Pow2(n) == IF n = 0 THEN 1 ELSE 2 * Pow2(n - 1)

RECURSIVE BitLen(_)
BitLen(n) == IF n = 0 THEN 0 ELSE 1 + BitLen(n \div 2)

RECURSIVE Canon(_, _)
Canon(m, e) == IF m = 0 THEN <<0, 0>>
               ELSE IF m % 2 = 0 THEN Canon(m \div 2, e + 1)
               ELSE <<m, e>>

\* The float nearest to m * 2^e, or, with sticky, to a number between
\* m * 2^e and the next integer multiple of 2^e away from zero.
RoundFloat32(m, e, sticky) ==
    LET a     == Abs(m)
        shift == BitLen(a) - FloatBits
    IN  IF shift <= 0 THEN Canon(m, e)
        ELSE LET q    == a \div Pow2(shift)
                 r    == a % Pow2(shift)
                 half == Pow2(shift - 1)
                 up   == \/ r > half
                         \/ r = half /\ (sticky \/ q % 2 = 1)
                 n    == IF up THEN q + 1 ELSE q
             IN  Canon(IF m < 0 THEN 0 - n ELSE n, e + shift)

\* (float)i
Float32OfInt(i) == RoundFloat32(i, 0, FALSE)

\* (int)x: towards zero
Float32Trunc(x) ==
    IF x[2] >= 0 THEN x[1] * Pow2(x[2])
    ELSE LET n == Abs(x[1]) \div Pow2(0 - x[2])
         IN  IF x[1] < 0 THEN 0 - n ELSE n

\* x + y
Float32Add(x, y) ==
    LET e == Min(x[2], y[2])
    IN  RoundFloat32(x[1] * Pow2(x[2] - e) + y[1] * Pow2(y[2] - e), e, FALSE)

\* x - y
Float32Sub(x, y) == Float32Add(x, <<0 - y[1], y[2]>>)

\* x * y
Float32Mul(x, y) == RoundFloat32(x[1] * y[1], x[2] + y[2], FALSE)

\* a + x * y contracted into one fused multiply-add: rounded once
Float32Fma(a, x, y) ==
    LET e == Min(a[2], x[2] + y[2])
    IN  RoundFloat32(a[1] * Pow2(a[2] - e)
                         + x[1] * y[1] * Pow2(x[2] + y[2] - e), e, FALSE)

\* The digits of a / b, b > 0, one bit after the other until the quotient has
\* FloatBits + 2 bits or the remainder is 0: <<quotient, exponent, sticky>>.
RECURSIVE LongDiv(_, _, _, _)
LongDiv(q, r, b, e) ==
    IF r = 0 THEN <<q, e, FALSE>>
    ELSE IF BitLen(q) >= FloatBits + 2 THEN <<q, e, TRUE>>
    ELSE IF 2 * r >= b THEN LongDiv(2 * q + 1, 2 * r - b, b, e - 1)
    ELSE LongDiv(2 * q, 2 * r, b, e - 1)

\* x / y, y not 0
Float32Div(x, y) ==
    LET a == Abs(x[1])
        b == Abs(y[1])
        d == LongDiv(a \div b, a % b, b, x[2] - y[2])
    IN  RoundFloat32(IF (x[1] < 0) = (y[1] < 0) THEN d[1] ELSE 0 - d[1],
                     d[2], d[3])

\* fabs(x)
Float32Abs(x) == <<Abs(x[1]), x[2]>>

\* x < y
Float32Less(x, y) == Float32Sub(x, y)[1] < 0

\* 0.2f
Float32Fifth == Float32Div(Float32OfInt(1), Float32OfInt(5))

\* ---- the stroke -------------------------------------------------------------
Bones == 1..NumBones

BrushSizes == {MaxBrushSize}

\* event->mval
MousePositions == {<<0, 0>>, <<MaxMouse, 0>>, <<0, 1>>}

\* The event types psculpt_brush_modal tells apart: MIDDLEMOUSE and RIGHTMOUSE
\* are handled as LEFTMOUSE, INBETWEEN_MOUSEMOVE as MOUSEMOVE.
EventTypes == {"LEFTMOUSE", "TIMER", "MOUSEMOVE", "KEYBOARD"}

\* event->customdata of a TIMER event: the timer of the operator, or another
Timers == {"pso->timer", "other"}

Float32Zero == Float32OfInt(0)

\* The two coordinates of a mouse position as floats.
Float32OfInts(v) == <<Float32OfInt(v[1]), Float32OfInt(v[2])>>

\* What verify_bone_is_affected does when it adds whatever add is.
verify_bone_is_affected_add(affected, pchan, add) ==
    [tab |-> pchan, affected |-> affected \cup {pchan}]

\* The entry of pchan in the hash, added if not found and add; tab is the
\* entry returned (named after its bone), or NULL.
verify_bone_is_affected(affected, pchan, add) ==
    LET found == pchan \in affected
    IN  IF ~found /\ add
        THEN [tab |-> pchan, affected |-> affected \cup {pchan}]
        ELSE [tab |-> IF found THEN pchan ELSE NULL, affected |-> affected]

\* The "grab" brush on pchan. st is the hash and the channels of the bones;
\* loc counts the displacements added, each with the sign of fac.
brush_grab(st, data, pchan) ==
    LET flag == brush.grab_initial
        v    == IF flag
                THEN verify_bone_is_affected(st.affected, pchan, data.first)
                ELSE [tab |-> pchan, affected |-> st.affected]
        fac  == IF flag /\ ~data.first THEN 1
                ELSE IF data.invert THEN 0 - 1 ELSE 1
    IN  IF flag /\ v.tab = NULL THEN st
        ELSE IF pchan \in connected THEN [st EXCEPT !.affected = v.affected]
        ELSE [st EXCEPT !.affected = v.affected, !.loc[pchan] = @ + fac]

\* The "curl" brush on pchan, a bone with no rotation locked; eul counts the
\* angles added, each with the sign of angle.
brush_curl(st, data, pchan) ==
    [st EXCEPT !.eul[pchan] = @ + (IF data.invert THEN 0 - 1 ELSE 1)]

\* brush_cb(pso, data, pchan, sco1, sco2)
BrushCall(brush_cb, st, data, pchan) ==
    IF brush_cb = "brush_grab" THEN brush_grab(st, data, pchan)
    ELSE brush_curl(st, data, pchan)

\* The loop of psculpt_brush_do_apply from pchan on. skipped are the bones
\* that are invisible, masked or off screen, inside those whose head or tail
\* edge_inside_circle finds in the circle around data->mval.
RECURSIVE psculpt_brush_do_apply(_, _, _, _, _, _)
psculpt_brush_do_apply(pchan, st, data, brush_cb, skipped, inside) ==
    IF pchan > NumBones THEN st
    ELSE LET ok   == \/ pchan \in inside
                     \/ /\ brush.grab_initial
                        /\ data.first = FALSE
                        /\ verify_bone_is_affected(st.affected, pchan,
                                                   FALSE).tab # NULL
             next == IF pchan \in skipped \/ ~ok THEN st
                     ELSE [BrushCall(brush_cb, st, data, pchan)
                               EXCEPT !.called = @ \cup {pchan}]
         IN  psculpt_brush_do_apply(pchan + 1, next, data, brush_cb,
                                    skipped, inside)

\* The brush callback of pset->brushtype.
BrushCallback == IF brush.brushtype = "GRAB" THEN "brush_grab" ELSE "brush_curl"

\* What the test of psculpt_brush_apply would be if it let everything pass.
psculpt_brush_always(dx, dy, first, tick) == TRUE

\* only apply brush if mouse moved, or if this is the first run, or if the
\* timer ticked
psculpt_brush_moved(dx, dy, first, tick) ==
    \/ dx # Float32Zero
    \/ dy # Float32Zero
    \/ first
    \/ tick

\* tot_steps = dmax / (0.2f * brush->size) + 1
psculpt_tot_steps(dx, dy) ==
    LET ax   == Float32Abs(dx)
        ay   == Float32Abs(dy)
        dmax == IF Float32Less(ax, ay) THEN ay ELSE ax
    IN  Float32Trunc(
            Float32Add(Float32Div(dmax, Float32Mul(Float32Fifth,
                                                   Float32OfInt(brush.size))),
                       Float32OfInt(1)))

\* pso->lastmouse[i] + step*dx
psculpt_step_mval(last, n, d) ==
    IF fp_contract THEN Float32Fma(last, Float32OfInt(n), d)
    ELSE Float32Add(last, Float32Mul(Float32OfInt(n), d))

\* psculpt_brush_apply up to its for loop, called with pso->first first,
\* pso->timerTick tick and pso->data.invert inv by who.
psculpt_brush_apply(first, tick, inv, mousef, pen_flip, who) ==
    LET ms    == <<Float32Trunc(mousef[1]), Float32Trunc(mousef[2])>>
        last  == IF first THEN Float32OfInts(ms) ELSE lastmouse
        dx    == Float32Sub(Float32OfInt(ms[1]), last[1])
        dy    == Float32Sub(Float32OfInt(ms[2]), last[2])
        steps == psculpt_tot_steps(dx, dy)
    IN  /\ mouse' = ms
        /\ data_invert' = (inv \/ pen_flip)
        /\ lastmouse' = last
        /\ pso_first' = first
        /\ timerTick' = tick
        /\ caller' = who
        /\ IF psculpt_brush_moved(dx, dy, first, tick)
           THEN /\ tot_steps' = steps
                /\ step' = 1
                /\ dvec' = <<Float32Div(dx, Float32OfInt(steps)),
                             Float32Div(dy, Float32OfInt(steps))>>
                /\ ps_at' = "steps"
           ELSE /\ ps_at' = "modal"
                /\ UNCHANGED <<tot_steps, step, dvec>>

\* psculpt_brush_apply_event: the stroke item of the event, applied.
psculpt_brush_apply_event(first, tick, inv, event, who) ==
    psculpt_brush_apply(first, tick, inv, Float32OfInts(event.mval),
                        event.shift, who)

\* The events; a field that the handler of the type does not read is left at
\* one value.
Events ==
    {event \in [type : EventTypes, customdata : Timers,
                mval : MousePositions, shift : BOOLEAN] :
        /\ event.type # "TIMER" => event.customdata = "other"
        /\ event.type \in {"LEFTMOUSE", "KEYBOARD"} =>
               event.mval = <<0, 0>> /\ ~event.shift}

\* psculpt_brush_invoke: psculpt_brush_init and the initial "click" apply.
psculpt_brush_invoke(event, invert) ==
    /\ ps_at = "none"
    /\ affected_bones' = {}
    /\ pso_timer' = "NULL"
    /\ psculpt_brush_apply_event(TRUE, FALSE, invert, event, "invoke")
    /\ UNCHANGED <<brush, fp_contract, connected, pchan_loc, pchan_eul, mval,
                   called, events>>
    /\ UNCHANGED outsideSculpt

\* One pass of the for loop of psculpt_brush_apply.
apply_step ==
    /\ ps_at = "steps"
    /\ step <= tot_steps
    /\ \E skipped \in SUBSET Bones, inside \in SUBSET Bones :
         /\ skipped \cap inside = {}
         /\ LET data == [first |-> pso_first, invert |-> data_invert]
                st   == psculpt_brush_do_apply(
                            1,
                            [affected |-> affected_bones, loc |-> pchan_loc,
                             eul |-> pchan_eul, called |-> {}],
                            data, BrushCallback, skipped, inside)
            IN  /\ affected_bones' = st.affected
                /\ pchan_loc' = st.loc
                /\ pchan_eul' = st.eul
                /\ called' = st.called
    /\ mval' = <<psculpt_step_mval(lastmouse[1], step, dvec[1]),
                 psculpt_step_mval(lastmouse[2], step, dvec[2])>>
    /\ step' = step + 1
    /\ UNCHANGED <<brush, fp_contract, connected, ps_at, pso_first, lastmouse,
                   timerTick, pso_timer, data_invert, mouse, dvec, tot_steps,
                   caller, events>>
    /\ UNCHANGED outsideSculpt

\* psculpt_brush_apply after its for loop, and what its caller does next:
\* psculpt_brush_invoke registers the timer of the curl brush,
\* psculpt_brush_modal ends the timer tick.
apply_end ==
    /\ ps_at = "steps"
    /\ step > tot_steps
    /\ lastmouse' = Float32OfInts(mouse)
    /\ pso_first' = FALSE
    /\ pso_timer' = IF caller = "invoke" /\ brush.brushtype = "CURL"
                    THEN "pso->timer" ELSE pso_timer
    /\ timerTick' = IF caller = "timer" THEN FALSE ELSE timerTick
    /\ ps_at' = "modal"
    /\ UNCHANGED <<brush, fp_contract, connected, affected_bones, data_invert,
                   pchan_loc, pchan_eul, mouse, dvec, tot_steps, step, mval,
                   called, caller, events>>
    /\ UNCHANGED outsideSculpt

\* psculpt_brush_exit
psculpt_brush_exit ==
    /\ pso_timer' = "NULL"
    /\ affected_bones' = {}
    /\ ps_at' = "finished"
    /\ UNCHANGED <<pso_first, lastmouse, timerTick, data_invert, mouse, dvec,
                   tot_steps, step, caller>>

\* psculpt_brush_modal
psculpt_brush_modal(event) ==
    /\ ps_at = "modal"
    /\ events < MaxEvents
    /\ events' = events + 1
    /\ CASE event.type = "LEFTMOUSE" -> psculpt_brush_exit
         [] event.type = "TIMER" /\ event.customdata = pso_timer ->
                /\ psculpt_brush_apply_event(pso_first, TRUE, data_invert,
                                             event, "timer")
                /\ UNCHANGED <<pso_timer, affected_bones>>
         [] event.type = "MOUSEMOVE" ->
                /\ psculpt_brush_apply_event(pso_first, timerTick, data_invert,
                                             event, "move")
                /\ UNCHANGED <<pso_timer, affected_bones>>
         [] OTHER ->
                UNCHANGED <<ps_at, pso_first, lastmouse, timerTick, pso_timer,
                            affected_bones, data_invert, mouse, dvec,
                            tot_steps, step, caller>>
    /\ UNCHANGED <<brush, fp_contract, connected, pchan_loc, pchan_eul, mval,
                   called>>
    /\ UNCHANGED outsideSculpt

\* The operator before it is invoked: the settings of the brush, the build,
\* and the armature.
InitSculpt ==
    /\ brush \in [brushtype : {"GRAB", "CURL"}, grab_initial : BOOLEAN,
                  size : BrushSizes]
    /\ fp_contract \in BOOLEAN
    /\ connected \in {{}, {NumBones}}
    /\ ps_at = "none"
    /\ pso_first = FALSE
    /\ lastmouse = <<Float32Zero, Float32Zero>>
    /\ timerTick = FALSE
    /\ pso_timer = "NULL"
    /\ affected_bones = {}
    /\ data_invert = FALSE
    /\ pchan_loc = [b \in Bones |-> 0]
    /\ pchan_eul = [b \in Bones |-> 0]
    /\ mouse = <<0, 0>>
    /\ dvec = <<Float32Zero, Float32Zero>>
    /\ tot_steps = 0
    /\ step = 0
    /\ mval = <<Float32Zero, Float32Zero>>
    /\ called = {}
    /\ caller = ""
    /\ events = 0
    /\ cacheAtRest
    /\ nodesAtRest
    /\ lowerAtRest
    /\ mathAtRest
    /\ graphAtRest
    /\ argsAtRest
    /\ keysAtRest

NextSculpt ==
    \/ \E event \in Events, invert \in BOOLEAN :
           psculpt_brush_invoke(event, invert)
    \/ apply_step
    \/ apply_end
    \/ \E event \in Events : psculpt_brush_modal(event)

SpecSculpt == InitSculpt /\ [][NextSculpt]_vars

\* C28: with the GRAB_INITIAL flag set the hash of affected bones gains a
\* member only in a step taken while pso->first is true, and the grab brush
\* changes the location of a bone only if the bone is in the hash: in every
\* later application no bone is added and no bone outside the hash is moved.
C28_AffectedOnlyOnFirst ==
    [][brush.grab_initial =>
           /\ ~(affected_bones' \subseteq affected_bones) => pso_first
           /\ \A b \in Bones :
                  (brush.brushtype = "GRAB" /\ pchan_loc'[b] # pchan_loc[b]) =>
                      /\ b \in affected_bones'
                      /\ ~pso_first => b \in affected_bones]_vars

\* A later application of the grab brush has called the brush on a bone of the
\* hash, which it has moved by now, and on a bone outside it, which it never
\* moved.
C28_Witness ==
    /\ brush.brushtype = "GRAB"
    /\ brush.grab_initial
    /\ ps_at = "steps"
    /\ ~pso_first
    /\ step > 1
    /\ \E b \in called \cap affected_bones : pchan_loc[b] # 0
    /\ \E b \in called \ affected_bones : pchan_loc[b] = 0

\* psculpt_brush_apply enters its for loop only if the mouse moved since the
\* last applied event, or pso->first, or pso->timerTick.
ApplyOnlyIfMoved ==
    (ps_at # "steps" /\ ps_at' = "steps") =>
        \/ Float32OfInts(mouse') # lastmouse'
        \/ pso_first'
        \/ timerTick'

\* psculpt_brush_apply leaves its for loop.
ApplyEnds == ps_at = "steps" /\ ps_at' = "modal"

\* An event that psculpt_brush_modal did not apply the brush for.
NotApplied == ps_at = "modal" /\ ps_at' = "modal"

\* x and y are less than 1/1024 apart.
Float32Near(x, y) ==
    Float32Less(Float32Abs(Float32Sub(x, y)), <<1, 0 - 10>>)

\* C29 as stated: the brush is applied only if the mouse moved, or on the
\* first event, or on a timer tick; when the application ends the last
\* sub-step was at the mouse position of the event, and lastmouse is that
\* position and first is false afterwards; an event that is not applied leaves
\* lastmouse, first and the bones unchanged.
C29_ApplyAtMouse ==
    [][/\ ApplyOnlyIfMoved
       /\ ApplyEnds =>
              /\ mval = Float32OfInts(mouse)
              /\ lastmouse' = Float32OfInts(mouse)
              /\ pso_first' = FALSE
       /\ NotApplied =>
              UNCHANGED <<lastmouse, pso_first, pchan_loc, pchan_eul>>]_vars

\* C29 amended: as C29, but the last sub-step is at the mouse position only
\* up to the rounding of the float division and multiplication: less than
\* 1/1024 of a pixel from it, and exactly there when there is one sub-step.
C29_ApplyNearMouse ==
    [][/\ ApplyOnlyIfMoved
       /\ ApplyEnds =>
              /\ Float32Near(mval[1], Float32OfInt(mouse[1]))
              /\ Float32Near(mval[2], Float32OfInt(mouse[2]))
              /\ tot_steps = 1 => mval = Float32OfInts(mouse)
              /\ lastmouse' = Float32OfInts(mouse)
              /\ pso_first' = FALSE
       /\ NotApplied =>
              UNCHANGED <<lastmouse, pso_first, pchan_loc, pchan_eul>>]_vars

\* A mouse move has been applied in several sub-steps, the last of them beside
\* the mouse position, and lastmouse is the mouse position.
C29_Witness ==
    /\ ps_at = "modal"
    /\ caller = "move"
    /\ tot_steps > 1
    /\ ~pso_first
    /\ lastmouse = Float32OfInts(mouse)
    /\ mval # lastmouse

====
